---- MODULE Spec2Model ----
(***************************************************************************)
(* A model of the SimplyNotJavaOrC front end and execution engine:         *)
(*   - the recursive-descent parser of SimplyParser.py, as operators from  *)
(*     a position in the token stream to a parse tree (or a diagnostic);   *)
(*   - the tree-walking evaluator of SimplyMain.py, as operators from a    *)
(*     machine state (environments, references, lists, output) to the      *)
(*     machine state after the call.                                       *)
(* The lexer is outside the model: a program is a sequence of tokens.      *)
(***************************************************************************)
EXTENDS Integers, Sequences, FiniteSets, TLC

VARIABLES
  tokens,   \* the token stream the lexer yields (Parser.__lexer)
  phase,    \* "edit" | "parsed" | "done": where the run of SimplyMain's main block is
  pt,       \* the result of parser.parse(): position, diagnostic, tree
  machine,  \* the evaluator's state after eval_parse_tree(pt, RefEnv())
  stdin     \* the lines on standard input, each the sequence of its characters

vars == <<tokens, phase, pt, machine, stdin>>

(***************************************************************************)
(* Runtime values.  A Python value is a record with a type tag; integers   *)
(* and floats carry an exact fraction n/d (ints have d = 1), strings carry *)
(* s, the sequence of their characters, a list value carries the index of  *)
(* the list object in the heap.                                            *)
(***************************************************************************)
None == [ty |-> "none", n |-> 0, d |-> 1, s |-> <<>>]
IntV(i) == [ty |-> "int", n |-> i, d |-> 1, s |-> <<>>]
StrV(str) == [ty |-> "str", n |-> 0, d |-> 1, s |-> str]
BoolV(b) == [ty |-> "bool", n |-> IF b THEN 1 ELSE 0, d |-> 1, s |-> <<>>]
ListV(id) == [ty |-> "list", n |-> id, d |-> 1, s |-> <<>>]

(***************************************************************************)
(* Tokens: TokenDetail(token, lexeme, value, line, col).  The stream holds *)
(* (token, lexeme, value); a program is one line and the column of a token *)
(* is its index in the stream.  The lexeme None is written "".             *)
(***************************************************************************)
TokenDetail(token, lexeme, value, line, col) ==
  [token |-> token, lexeme |-> lexeme, value |-> value, line |-> line, col |-> col]

get_tok(p) ==
  IF p >= 1 /\ p <= Len(tokens)
    THEN TokenDetail(tokens[p].token, tokens[p].lexeme, tokens[p].value, 1, p)
    ELSE TokenDetail("EOF", "", None, 1, Len(tokens) + 1)

(***************************************************************************)
(* Parse trees.                                                            *)
(***************************************************************************)
ParseTree(node_type, token) ==
  [node_type |-> node_type, token |-> token, children |-> <<>>]

\* the Python values False and None, where a production returns them as a node
NoTok == TokenDetail("INVALID", "", None, 0, 0)
FalseNode == [node_type |-> "False", token |-> NoTok, children |-> <<>>]
NoneNode == [node_type |-> "None", token |-> NoTok, children |-> <<>>]
KeyErrorNode == [node_type |-> "KeyError", token |-> NoTok, children |-> <<>>]
IsTree(n) == n.node_type \notin {"False", "None", "KeyError"}

append(n, c) == [n EXCEPT !.children = Append(@, c)]
insert0(n, c) == [n EXCEPT !.children = <<c>> \o @]

ariness ==
  [t \in {"ATOMIC", "ASSIGN", "ADD", "SUB", "MUL", "DIV", "POW", "NEG", "IF",
          "IFELSE", "LT", "ET", "PRINT", "CALL", "RETURN"} |->
     CASE t = "ATOMIC" -> 0
       [] t \in {"NEG", "PRINT", "CALL", "RETURN"} -> 1
       [] t = "IFELSE" -> 3
       [] OTHER -> 2]

\* a splice that puts the leaf after the operand the open slot already holds
RECURSIVE insert_right_leaf(_, _)
insert_right_leaf(self, leaf) ==
  IF self.node_type \notin DOMAIN ariness THEN KeyErrorNode
  ELSE IF Len(self.children) < ariness[self.node_type] THEN append(self, leaf)
  ELSE IF Len(self.children) = 0 THEN KeyErrorNode
  ELSE LET c == insert_right_leaf(self.children[1], leaf)
       IN IF ~IsTree(c) THEN c
          ELSE [self EXCEPT !.children = <<c>> \o Tail(@)]

\* a splice that never descends: the leaf becomes the first child of the node
insert_at_root(self, leaf) == insert0(self, leaf)

RECURSIVE insert_left_leaf(_, _)
insert_left_leaf(self, leaf) ==
  IF self.node_type \notin DOMAIN ariness THEN KeyErrorNode
  ELSE IF Len(self.children) < ariness[self.node_type] THEN insert0(self, leaf)
  ELSE IF Len(self.children) = 0 THEN KeyErrorNode
  ELSE LET c == insert_left_leaf(self.children[1], leaf)
       IN IF ~IsTree(c) THEN c
          ELSE [self EXCEPT !.children = <<c>> \o Tail(@)]

(***************************************************************************)
(* Results of a production: the lexer position after it, the diagnostic of *)
(* __must_be (<<>> when none), the node it returns and, for a production   *)
(* that appends to its argument, the argument after the call.              *)
(***************************************************************************)
NoErr == <<>>
Res(p, n) == [pos |-> p, err |-> NoErr, node |-> n, lv |-> NoneNode]
ResLv(p, n, lv) == [pos |-> p, err |-> NoErr, node |-> n, lv |-> lv]
Failed(r) == r.err # NoErr

\* the value of e under x = v, written With([x \in {v} |-> e])
With(f) == f[CHOOSE x \in DOMAIN f : TRUE]

__has(p, t) == get_tok(p).token = t

\* __must_be when the current token is not t: the diagnostic, and sys.exit(-1)
must_be_exit(p, t) ==
  [pos |-> p,
   err |-> <<[line |-> get_tok(p).line, col |-> get_tok(p).col,
              received |-> get_tok(p).token, expected |-> t]>>,
   node |-> NoneNode, lv |-> NoneNode]

TypeToken(p) ==
  __has(p, "NUMBER") \/ __has(p, "CHARACTER") \/ __has(p, "BOOL") \/ __has(p, "STRING")

Truthy(n) == n.node_type \notin {"False", "None"}

RECURSIVE self(_, _)
RECURSIVE __expression(_), __expression2(_), __term(_), __term2(_), __factor(_),
          __factor2(_), __exponent(_), __exponent_alt(_, _), __arg_list(_),
          arg_list_loop(_, _), __ref_alt(_, _), __call_alt(_, _)

(***************************************************************************)
(* Expressions.  The result of a production is bound once for the steps    *)
(* that follow it: With([r \in {production} |-> steps]).                   *)
(***************************************************************************)
__expression(p) ==
  With([left \in {self("__term", p)} |->
    IF Failed(left) THEN left ELSE
    With([node \in {self("__expression2", left.pos)} |->
      IF Failed(node) THEN node
      ELSE IF Truthy(node.node)
        THEN Res(node.pos, insert_left_leaf(node.node, left.node))
        ELSE Res(node.pos, left.node)])])

__expression2(p) ==
  IF __has(p, "PLUS") \/ __has(p, "MINUS") THEN
    With([t \in {self("__term", p + 1)} |->
      IF Failed(t) THEN t ELSE
      With([e \in {self("__expression2", t.pos)} |->
        LET node == ParseTree(IF __has(p, "PLUS") THEN "ADD" ELSE "SUB", get_tok(p + 1))
        IN IF Failed(e) THEN e
           ELSE IF Truthy(e.node)
             THEN Res(e.pos, insert_left_leaf(e.node, append(node, t.node)))
             ELSE Res(e.pos, append(node, t.node))])])
  ELSE Res(p, FalseNode)

__term(p) ==
  With([left \in {self("__factor", p)} |->
    IF Failed(left) THEN left ELSE
    With([node \in {self("__term2", left.pos)} |->
      IF Failed(node) THEN node
      ELSE IF Truthy(node.node)
        THEN Res(node.pos, insert_left_leaf(node.node, left.node))
        ELSE Res(node.pos, left.node)])])

__term2(p) ==
  IF __has(p, "TIMES") \/ __has(p, "DIVIDE") THEN
    With([f \in {self("__factor", p + 1)} |->
      IF Failed(f) THEN f ELSE
      With([t \in {self("__term2", f.pos)} |->
        LET node == ParseTree(IF __has(p, "TIMES") THEN "MUL" ELSE "DIV", get_tok(p + 1))
        IN IF Failed(t) THEN t
           ELSE IF Truthy(t.node)
             THEN Res(t.pos, insert_left_leaf(t.node, append(node, f.node)))
             ELSE Res(t.pos, append(node, f.node))])])
  ELSE Res(p, FalseNode)

__factor(p) ==
  With([e \in {self("__exponent", IF __has(p, "MINUS") THEN p + 1 ELSE p)} |->
    IF Failed(e) THEN e ELSE
    With([node \in {self("__factor2", e.pos)} |->
      LET left == IF __has(p, "MINUS")
                    THEN append(ParseTree("NEG", get_tok(p)), e.node)
                    ELSE e.node
      IN IF Failed(node) THEN node
         ELSE IF Truthy(node.node)
           THEN Res(node.pos, insert0(node.node, left))
           ELSE Res(node.pos, left)])])

__factor2(p) ==
  IF __has(p, "POW") THEN
    With([f \in {self("__factor", p + 1)} |->
      IF Failed(f) THEN f
      ELSE Res(f.pos, append(ParseTree("POW", get_tok(p + 1)), f.node))])
  ELSE Res(p, FalseNode)

\* an __exponent that makes the node of a literal and leaves the lexer on it
__exponent_without_next(p) ==
  IF __has(p, "LPAREN") THEN
    With([node \in {self("__expression", p + 1)} |->
      IF Failed(node) THEN node
      ELSE IF ~__has(node.pos, "RPAREN") THEN must_be_exit(node.pos, "RPAREN")
      ELSE Res(node.pos + 1, node.node)])
  ELSE IF __has(p, "ID") THEN
    __exponent_alt(ParseTree("ATOMIC", get_tok(p)), p + 1)
  ELSE IF __has(p, "INTLIT") \/ __has(p, "FLOATLIT") \/ __has(p, "CHARLIT")
          \/ __has(p, "STRINGLIT") THEN
    Res(p, ParseTree("ATOMIC", get_tok(p)))
  ELSE must_be_exit(p, "STRINGLIT")

__exponent(p) ==
  IF __has(p, "LPAREN") THEN
    With([node \in {self("__expression", p + 1)} |->
      IF Failed(node) THEN node
      ELSE IF ~__has(node.pos, "RPAREN") THEN must_be_exit(node.pos, "RPAREN")
      ELSE Res(node.pos + 1, node.node)])
  ELSE IF __has(p, "ID") THEN
    __exponent_alt(ParseTree("ATOMIC", get_tok(p)), p + 1)
  ELSE IF __has(p, "INTLIT") \/ __has(p, "FLOATLIT") \/ __has(p, "CHARLIT")
          \/ __has(p, "STRINGLIT") THEN
    Res(p + 1, ParseTree("ATOMIC", get_tok(p)))
  ELSE must_be_exit(p, "STRINGLIT")

__exponent_alt(lv, p) ==
  IF __has(p, "LPAREN") THEN __call_alt(lv, p + 1)
  ELSE With([r \in {__ref_alt(append(ParseTree("REF", get_tok(p)), lv), p)} |->
         IF Failed(r) THEN r ELSE Res(r.pos, r.lv)])

\* the while loop of __arg_list, node being the ARGLIST built so far
arg_list_loop(node, p) ==
  With([e \in {self("__expression", p)} |->
    IF Failed(e) THEN e
    ELSE IF __has(e.pos, "COMMA")
      THEN arg_list_loop(append(node, e.node), e.pos + 1)
      ELSE Res(e.pos, append(node, e.node))])

__arg_list(p) == arg_list_loop(ParseTree("ARGLIST", get_tok(p)), p)

\* returns False or (after a bracketed index list) None; lv is the node appended to
__ref_alt(lv, p) ==
  IF __has(p, "LBRACKET") THEN
    With([a \in {self("__arg_list", p + 1)} |->
      IF Failed(a) THEN a
      ELSE IF ~__has(a.pos, "RBRACKET") THEN must_be_exit(a.pos, "RBRACKET")
      ELSE ResLv(a.pos + 1, NoneNode, append(lv, a.node))])
  ELSE ResLv(p, FalseNode, lv)

__call_alt(lv, p) ==
  IF __has(p, "RPAREN") THEN Res(p + 1, append(ParseTree("CALL", get_tok(p)), lv))
  ELSE With([a \in {self("__arg_list", p)} |->
         IF Failed(a) THEN a
         ELSE IF ~__has(a.pos, "RPAREN") THEN must_be_exit(a.pos, "RPAREN")
         ELSE Res(a.pos + 1, insert0(append(ParseTree("CALL", get_tok(p)), a.node), lv))])

RECURSIVE __block(_), __block2(_, _), __stmnt_list(_, _), __stmnt_list_alt(_, _),
          __stmnt(_), __stmnt_alt(_, _), __stmnt_alt2(_, _), __stmnt_alt3(_, _, _),
          __branch_alt(_, _, _), __var_declist(_, _), __bounds2(_, _),
          __param_list(_, _), __variable_choice_param2(_, _), __fun_declist2(_, _),
          ref_list_loop(_, _)

(***************************************************************************)
(* References, conditions and the small statement helpers.                 *)
(***************************************************************************)
__ref(p) ==
  IF ~__has(p, "ID") THEN must_be_exit(p, "ID")
  ELSE With([r \in {__ref_alt(append(ParseTree("REF", get_tok(p)),
                                     ParseTree("ATOMIC", get_tok(p))), p + 1)} |->
         IF Failed(r) THEN r ELSE Res(r.pos, r.lv)])

\* the while loop of __ref_list, node being the REFLIST built so far
ref_list_loop(node, p) ==
  With([r \in {self("__ref", p)} |->
    IF Failed(r) THEN r
    ELSE IF __has(r.pos, "COMMA")
      THEN ref_list_loop(append(node, r.node), r.pos + 1)
      ELSE Res(r.pos, append(node, r.node))])

__ref_list(p) == ref_list_loop(ParseTree("REFLIST", get_tok(p)), p)

__return(p) ==
  IF ~__has(p, "RETURN") THEN must_be_exit(p, "RETURN")
  ELSE With([e \in {self("__expression", p + 1)} |->
         IF Failed(e) THEN e
         ELSE Res(e.pos, append(ParseTree("RETURN", get_tok(p)), e.node))])

__import2(lv, p) ==
  IF __has(p, "STRINGLIT")
    THEN ResLv(p + 1, NoneNode, append(lv, ParseTree("ATOMIC", get_tok(p))))
    ELSE With([node2 \in {self("__ref", p)} |->
           IF Failed(node2) THEN node2
           ELSE ResLv(node2.pos, NoneNode, append(lv, node2.node))])

__split_alt(p) ==
  IF __has(p, "CHARLIT") \/ __has(p, "STRINGLIT")
    THEN Res(p + 1, ParseTree("ATOMIC", get_tok(p)))
    ELSE self("__ref", p)

RelopType(p) ==
  CASE __has(p, "EQUAL") -> "ET"
    [] __has(p, "NOT_EQUAL_TO") -> "NE"
    [] __has(p, "LESS_THAN") -> "LT"
    [] __has(p, "LESS_THAN_OR_EQUAL") -> "LTE"
    [] __has(p, "GREATER_THAN") -> "GT"
    [] __has(p, "GREATER_THAN_OR_EQUAL") -> "GTE"
    [] OTHER -> "None"

__condition(p) ==
  With([left \in {self("__expression", p)} |->
    IF Failed(left) THEN left
    ELSE IF RelopType(left.pos) = "None"
      THEN must_be_exit(left.pos, "GREATER_THAN_OR_EQUAL")
    ELSE With([right \in {self("__expression", left.pos + 1)} |->
           LET result == ParseTree(RelopType(left.pos), get_tok(left.pos))
           IN IF Failed(right) THEN right
              ELSE Res(right.pos,
                       [result EXCEPT !.children = <<left.node, right.node>>])])])

__branch_alt(c, b1, p) ==
  IF __has(p, "ELSE") THEN
    With([b2 \in {self("__block", p + 1)} |->
      IF Failed(b2) THEN b2
      ELSE Res(b2.pos, append(append(append(ParseTree("IFELSE", get_tok(p)), c), b1),
                              b2.node))])
  ELSE Res(p, FalseNode)

__stmnt_alt3(lv, lv2, p) ==
  IF __has(p, "IMPORT") THEN
    With([node \in {__import2(ParseTree("IMPORT", get_tok(p)), p + 1)} |->
      IF Failed(node) THEN node
      ELSE ResLv(node.pos, NoneNode, append(append(lv, lv2), node.lv))])
  ELSE With([e \in {self("__expression", p)} |->
         IF Failed(e) THEN e
         ELSE ResLv(e.pos, NoneNode, append(append(lv, lv2), e.node))])

__stmnt_alt2(lv, p) ==
  IF __has(p, "ASSIGN") THEN
    With([e \in {self("__expression", p + 1)} |->
      IF Failed(e) THEN e
      ELSE Res(e.pos, append(append(ParseTree("ASSIGN", get_tok(p)), lv), e.node))])
  ELSE IF ~__has(p, "SWAP") THEN must_be_exit(p, "SWAP")
  ELSE With([r \in {self("__ref", p + 1)} |->
         IF Failed(r) THEN r
         ELSE Res(r.pos, append(append(ParseTree("SWAP", get_tok(p)), lv), r.node))])

\* the CLOSED_BRACKET branch of __stmnt_alt: ID [] := SPLIT ( split_alt ) STRINGLIT
stmnt_alt_split(lv, p) ==
  IF ~__has(p, "ASSIGN") THEN must_be_exit(p, "ASSIGN")
  ELSE IF ~__has(p + 1, "SPLIT") THEN must_be_exit(p + 1, "SPLIT")
  ELSE IF ~__has(p + 2, "LPAREN") THEN must_be_exit(p + 2, "LPAREN")
  ELSE With([a \in {self("__split_alt", p + 3)} |->
         LET node == append(ParseTree("ASSIGN", get_tok(p)), lv)
             node2 == ParseTree("SPLIT", get_tok(p + 1))
         IN IF Failed(a) THEN a
            ELSE IF ~__has(a.pos, "RPAREN") THEN must_be_exit(a.pos, "RPAREN")
            ELSE IF ~__has(a.pos + 1, "STRINGLIT")
              THEN must_be_exit(a.pos + 1, "STRINGLIT")
            ELSE Res(a.pos + 2,
                     append(node, append(append(node2, a.node),
                                         ParseTree("ATOMIC", get_tok(a.pos + 1)))))])

__stmnt_alt(lv, p) ==
  IF __has(p, "ASSIGN") THEN
    With([r \in {__stmnt_alt3(ParseTree("ASSIGN", get_tok(p)), lv, p + 1)} |->
      IF Failed(r) THEN r ELSE Res(r.pos, r.lv)])
  ELSE IF __has(p, "SWAP") THEN
    With([r \in {self("__ref", p + 1)} |->
      LET node2 == append(ParseTree("REF", get_tok(p)), lv)
      IN IF Failed(r) THEN r
         ELSE Res(r.pos, append(append(ParseTree("SWAP", get_tok(p)), node2), r.node))])
  ELSE IF __has(p, "LBRACKET") THEN
    With([a \in {self("__arg_list", p + 1)} |->
      IF Failed(a) THEN a
      ELSE IF ~__has(a.pos, "RBRACKET") THEN must_be_exit(a.pos, "RBRACKET")
      ELSE __stmnt_alt2(append(append(ParseTree("ARRAY", get_tok(p)), lv), a.node),
                        a.pos + 1)])
  ELSE IF __has(p, "LPAREN") THEN __call_alt(lv, p + 1)
  ELSE IF __has(p, "CLOSED_BRACKET") THEN stmnt_alt_split(lv, p + 1)
  ELSE With([r \in {__ref_alt(lv, p)} |->
         IF Failed(r) THEN r ELSE Res(r.pos, r.node)])

__stmnt(p) ==
  IF __has(p, "ID") THEN __stmnt_alt(ParseTree("ATOMIC", get_tok(p)), p + 1)
  ELSE IF __has(p, "IF") THEN
    With([c \in {self("__condition", p + 1)} |->
      IF Failed(c) THEN c ELSE
      With([b1 \in {self("__block", c.pos)} |->
        IF Failed(b1) THEN b1 ELSE
        With([value \in {__branch_alt(c.node, b1.node, b1.pos)} |->
          IF Failed(value) \/ Truthy(value.node) THEN value
          ELSE Res(value.pos,
                   append(append(ParseTree("IF", get_tok(p)), c.node), b1.node))])])])
  ELSE IF __has(p, "WHILE") THEN
    With([c \in {self("__condition", p + 1)} |->
      IF Failed(c) THEN c ELSE
      With([b \in {self("__block", c.pos)} |->
        IF Failed(b) THEN b
        ELSE Res(b.pos,
                 append(append(ParseTree("WHILE", get_tok(p)), c.node), b.node))])])
  ELSE IF __has(p, "LPAREN") THEN
    With([node \in {self("__expression", p + 1)} |->
      IF Failed(node) THEN node
      ELSE IF ~__has(node.pos, "RPAREN") THEN must_be_exit(node.pos, "RPAREN")
      ELSE Res(node.pos + 1, node.node)])
  ELSE IF __has(p, "INTLIT") \/ __has(p, "FLOATLIT") \/ __has(p, "CHARLIT")
          \/ __has(p, "STRINGLIT") THEN self("__expression", p)
  ELSE IF __has(p, "PRINT") THEN
    With([a \in {self("__arg_list", p + 1)} |->
      IF Failed(a) THEN a
      ELSE Res(a.pos, append(ParseTree("PRINT", get_tok(p)), a.node))])
  ELSE IF __has(p, "READ") THEN
    With([r \in {self("__ref_list", p + 1)} |->
      IF Failed(r) THEN r
      ELSE Res(r.pos, append(ParseTree("READ", get_tok(p)), r.node))])
  ELSE IF __has(p, "BREAK") THEN Res(p + 1, ParseTree("BREAK", get_tok(p)))
  ELSE self("__return", p)

(***************************************************************************)
(* Statement lists, declarations, blocks.                                  *)
(***************************************************************************)
StmntListAltStart(p) ==
  \/ __has(p, "ID") \/ __has(p, "IF") \/ __has(p, "WHILE") \/ __has(p, "LPAREN")
  \/ __has(p, "INTLIT") \/ __has(p, "FLOATLIT") \/ __has(p, "CHARLIT")
  \/ __has(p, "STRING") \/ __has(p, "PRINT") \/ __has(p, "READ")
  \/ __has(p, "SPLIT") \/ __has(p, "BREAK") \/ __has(p, "IMPORT")
  \/ __has(p, "RETURN")

__stmnt_list_alt(lv, p) ==
  IF StmntListAltStart(p) THEN
    With([s \in {self("__stmnt", p)} |->
      IF Failed(s) THEN s
      ELSE __stmnt_list_alt(
             append(lv, append(ParseTree("STATEMENT", get_tok(p)), s.node)), s.pos)])
  ELSE ResLv(p, FalseNode, lv)

__stmnt_list(lv, p) ==
  With([s \in {self("__stmnt", p)} |->
    IF Failed(s) THEN s
    ELSE __stmnt_list_alt(
           append(lv, append(ParseTree("STATEMENT", get_tok(p)), s.node)), s.pos)])

__bounds2(lv, p) ==
  IF __has(p, "COMMA") THEN
    IF ~__has(p + 1, "INTLIT") THEN must_be_exit(p + 1, "INTLIT")
    ELSE __bounds2(append(lv, ParseTree("ATOMIC", get_tok(p + 1))), p + 2)
  ELSE ResLv(p, FalseNode, lv)

__bounds(lv, p) ==
  IF ~__has(p, "INTLIT") THEN must_be_exit(p, "INTLIT")
  ELSE With([b \in {__bounds2(append(ParseTree("BOUNDS", get_tok(p)),
                                     ParseTree("ATOMIC", get_tok(p))), p + 1)} |->
         IF Failed(b) THEN b ELSE ResLv(b.pos, NoneNode, append(lv, b.lv))])

__var_declist2(lv, p) ==
  IF __has(p, "LBRACKET") THEN
    With([b \in {__bounds(append(ParseTree("ARRAY", get_tok(p + 1)), lv), p + 1)} |->
      IF Failed(b) THEN b
      ELSE IF ~__has(b.pos, "RBRACKET") THEN must_be_exit(b.pos, "RBRACKET")
      ELSE Res(b.pos + 1, b.lv)])
  ELSE Res(p, FalseNode)

\* type ID [ bounds ]? at p (a type token): the declaration node appended to lv
declaration(lv, p) ==
  IF ~__has(p + 1, "ID") THEN must_be_exit(p + 1, "ID")
  ELSE LET type_dec_tree == append(ParseTree("ATOMIC", get_tok(p)),
                                   ParseTree("ATOMIC", get_tok(p + 1)))
       IN With([node4 \in {__var_declist2(type_dec_tree, p + 2)} |->
            IF Failed(node4) THEN node4
            ELSE IF Truthy(node4.node)
              THEN ResLv(node4.pos, NoneNode, append(lv, node4.node))
              ELSE ResLv(node4.pos, NoneNode, append(lv, type_dec_tree))])

__var_declist(lv, p) ==
  IF TypeToken(p) THEN
    With([d \in {declaration(lv, p)} |->
      IF Failed(d) THEN d ELSE __var_declist(d.lv, d.pos)])
  ELSE ResLv(p, FalseNode, lv)

\* the statement list and END that close both branches of __block2
block2_statements(lv, p) ==
  With([node5 \in {__stmnt_list(ParseTree("STATEMENT_LIST", get_tok(p)), p)} |->
    IF Failed(node5) THEN node5
    ELSE IF ~__has(node5.pos, "END") THEN must_be_exit(node5.pos, "END")
    ELSE ResLv(node5.pos + 1, NoneNode, append(lv, node5.lv))])

__block2(lv, p) ==
  IF TypeToken(p) THEN
    With([d \in {declaration(lv, p)} |->
      IF Failed(d) THEN d ELSE
      With([v \in {__var_declist(d.lv, d.pos)} |->
        IF Failed(v) THEN v ELSE block2_statements(v.lv, v.pos)])])
  ELSE block2_statements(lv, p)

__block(p) ==
  IF ~__has(p, "BEGIN") THEN must_be_exit(p, "BEGIN")
  ELSE With([b \in {__block2(ParseTree("BLOCK", get_tok(p)), p + 1)} |->
         IF Failed(b) THEN b ELSE Res(b.pos, b.lv)])

(***************************************************************************)
(* Function definitions and the program.                                   *)
(***************************************************************************)
__variable_choice_param1(p) ==
  IF __has(p, "ID") THEN Res(p + 1, ParseTree("ATOMIC", get_tok(p)))
  ELSE IF ~__has(p, "CLOSED_BRACKET") THEN must_be_exit(p, "CLOSED_BRACKET")
  ELSE IF ~__has(p + 1, "ID") THEN must_be_exit(p + 1, "ID")
  ELSE Res(p + 2, append(ParseTree("ARRAY", get_tok(p)), ParseTree("ATOMIC", get_tok(p + 1))))

\* returns the parameter's node; lv is the PARAMLIST, to which the parameters
\* that follow a comma are appended before this one is returned
__param_list(lv, p) ==
  IF TypeToken(p) THEN
    With([c1 \in {self("__variable_choice_param1", p + 1)} |->
      IF Failed(c1) THEN c1 ELSE
      With([c2 \in {__variable_choice_param2(lv, c1.pos)} |->
        IF Failed(c2) THEN c2
        ELSE ResLv(c2.pos, append(ParseTree("ATOMIC", get_tok(p)), c1.node), c2.lv)])])
  ELSE must_be_exit(p, "STRING")

__variable_choice_param2(lv, p) ==
  IF __has(p, "COMMA") THEN
    With([r \in {__param_list(lv, p + 1)} |->
      IF Failed(r) THEN r ELSE ResLv(r.pos, NoneNode, append(r.lv, r.node))])
  ELSE ResLv(p, FalseNode, lv)

\* returns the node __fun appends last; lv is the DEF node
__variable_choice_fun(lv, p) ==
  IF __has(p, "RPAREN") THEN
    With([b \in {self("__block", p + 1)} |->
      IF Failed(b) THEN b ELSE ResLv(b.pos, b.node, lv)])
  ELSE With([pl \in {__param_list(ParseTree("PARAMLIST", get_tok(p)), p)} |->
         IF Failed(pl) THEN pl
         ELSE IF ~__has(pl.pos, "RPAREN") THEN must_be_exit(pl.pos, "RPAREN")
         ELSE With([b \in {self("__block", pl.pos + 1)} |->
                IF Failed(b) THEN b
                ELSE ResLv(b.pos, append(pl.lv, pl.node), append(lv, b.node))])])

__fun(lv, p) ==
  IF __has(p, "PROC") \/ TypeToken(p) THEN
    IF ~__has(p + 1, "ID") THEN must_be_exit(p + 1, "ID")
    ELSE IF ~__has(p + 2, "LPAREN") THEN must_be_exit(p + 2, "LPAREN")
    ELSE LET node == append(ParseTree("ATOMIC", get_tok(p)),
                            ParseTree("ATOMIC", get_tok(p + 1)))
         IN With([v \in {__variable_choice_fun(append(lv, node), p + 3)} |->
              IF Failed(v) THEN v ELSE ResLv(v.pos, NoneNode, append(v.lv, v.node))])
  ELSE must_be_exit(p, "STRING")

__fun_declist2(lv, p) ==
  IF __has(p, "DEF") THEN
    With([f \in {__fun(ParseTree("DEF", get_tok(p)), p + 1)} |->
      IF Failed(f) THEN f ELSE __fun_declist2(append(lv, f.lv), f.pos)])
  ELSE ResLv(p, FalseNode, lv)

__fun_declist(lv, p) ==
  IF ~__has(p, "DEF") THEN must_be_exit(p, "DEF")
  ELSE With([f \in {__fun(ParseTree("DEF", get_tok(p)), p + 1)} |->
         IF Failed(f) THEN f ELSE __fun_declist2(append(lv, f.lv), f.pos)])

__program2(lv, lv2, p) ==
  With([node5 \in {__var_declist2(lv2, p)} |->
    IF Failed(node5) THEN node5 ELSE
    With([v \in {__var_declist(IF Truthy(node5.node) THEN append(lv, node5.node)
                               ELSE append(lv, lv2), node5.pos)} |->
      IF Failed(v) THEN v ELSE
      With([f \in {__fun_declist(v.lv, v.pos)} |->
        IF Failed(f) THEN f ELSE
        With([b \in {self("__block", f.pos)} |->
          IF Failed(b) THEN b
          ELSE ResLv(b.pos, NoneNode, append(f.lv, b.node))])])])])

__program(p) ==
  LET tree == ParseTree("PROGRAM", get_tok(p)) IN
  IF ~__has(p, "EOF") /\ ~__has(p, "ELSE") /\ ~__has(p, "END") THEN
    IF __has(p, "BEGIN") THEN
      With([b \in {__block2(ParseTree("BLOCK", get_tok(p + 1)), p + 1)} |->
        IF Failed(b) THEN b ELSE Res(b.pos, append(tree, b.lv))])
    ELSE IF TypeToken(p) THEN
      IF ~__has(p + 1, "ID") THEN must_be_exit(p + 1, "ID")
      ELSE With([r \in {__program2(tree, append(ParseTree("ATOMIC", get_tok(p)),
                                                ParseTree("ATOMIC", get_tok(p + 1))),
                                   p + 2)} |->
             IF Failed(r) THEN r ELSE Res(r.pos, r.lv)])
    ELSE IF ~__has(p, "DEF") THEN must_be_exit(p, "DEF")
    ELSE With([f \in {__fun(ParseTree("DEF", get_tok(p)), p + 1)} |->
           IF Failed(f) THEN f ELSE
           With([g \in {__fun_declist2(append(tree, f.lv), f.pos)} |->
             IF Failed(g) THEN g ELSE
             With([b \in {self("__block", g.pos)} |->
               IF Failed(b) THEN b ELSE Res(b.pos, append(g.lv, b.node))])])])
  ELSE Res(p, NoneNode)

(***************************************************************************)
(* self.production(): a production that takes no argument is called        *)
(* through the parser object, at the lexer position p.                     *)
(***************************************************************************)
self(production, p) ==
  CASE production = "__program" -> __program(p)
    [] production = "__expression" -> __expression(p)
    [] production = "__expression2" -> __expression2(p)
    [] production = "__term" -> __term(p)
    [] production = "__term2" -> __term2(p)
    [] production = "__factor" -> __factor(p)
    [] production = "__factor2" -> __factor2(p)
    [] production = "__exponent" -> __exponent(p)
    [] production = "__arg_list" -> __arg_list(p)
    [] production = "__ref" -> __ref(p)
    [] production = "__ref_list" -> __ref_list(p)
    [] production = "__return" -> __return(p)
    [] production = "__split_alt" -> __split_alt(p)
    [] production = "__condition" -> __condition(p)
    [] production = "__stmnt" -> __stmnt(p)
    [] production = "__block" -> __block(p)
    [] production = "__variable_choice_param1" -> __variable_choice_param1(p)

\* parse(): __next() makes the first token current
parse == self("__program", 1)

(***************************************************************************)
(* Python arithmetic and comparison on runtime values.  Numbers are exact  *)
(* fractions; a result whose numerator or denominator leaves -Limit..Limit *)
(* is outside the model ("unmodelled"), as are powers with a fractional    *)
(* exponent or one beyond MaxExponent, and the list and string operations  *)
(* the programs of this model never perform.                               *)
(***************************************************************************)
Limit == 20000
MaxExponent == 64

FloatV(n, d) == [ty |-> "float", n |-> n, d |-> d, s |-> <<>>]
TreeV(id) == [ty |-> "tree", n |-> id, d |-> 1, s |-> <<>>]
IsNum(v) == v.ty \in {"int", "float"}     \* type(value) in (int, float)
IsNumeric(v) == v.ty \in {"int", "float", "bool"}

Abs(x) == IF x < 0 THEN -x ELSE x

RECURSIVE GCD(_, _)
GCD(a, b) == IF b = 0 THEN a ELSE GCD(b, a % b)

\* the outcome of an operation: a value, or the exception Python raises
Val(v) == [exc |-> "", v |-> v]
Exc(e) == [exc |-> e, v |-> None]

\* the number n/d (d # 0) of type ty, in lowest terms
Num(ty, n, d) ==
  LET g == GCD(Abs(n), Abs(d))
      sn == IF d < 0 THEN -n ELSE n
  IN IF Abs(n) \div g > Limit \/ Abs(d) \div g > Limit THEN Exc("unmodelled")
     ELSE Val([ty |-> ty, n |-> sn \div g, d |-> Abs(d) \div g, s |-> <<>>])

ResultType(a, b) == IF a.ty = "float" \/ b.ty = "float" THEN "float" ELSE "int"

\* x ** k for k >= 0, by squaring, saturating above Limit
RECURSIVE IPow(_, _)
IPow(x, k) ==
  IF k = 0 THEN 1
  ELSE With([h \in {IPow(x, k \div 2)} |->
         IF Abs(h) > Limit THEN h
         ELSE IF Abs(h * h) > Limit \/ k % 2 = 0 THEN h * h
         ELSE h * h * x])

PyAdd(a, b) ==
  IF IsNumeric(a) /\ IsNumeric(b)
    THEN Num(ResultType(a, b), a.n * b.d + b.n * a.d, a.d * b.d)
  ELSE IF a.ty = "str" /\ b.ty = "str" THEN Val(StrV(a.s \o b.s))
  ELSE IF a.ty = "list" /\ b.ty = "list" THEN Exc("unmodelled")
  ELSE Exc("TypeError")

PySub(a, b) ==
  IF IsNumeric(a) /\ IsNumeric(b)
    THEN Num(ResultType(a, b), a.n * b.d - b.n * a.d, a.d * b.d)
    ELSE Exc("TypeError")

PyMul(a, b) ==
  IF IsNumeric(a) /\ IsNumeric(b)
    THEN Num(ResultType(a, b), a.n * b.n, a.d * b.d)
  ELSE IF \/ a.ty \in {"str", "list"} /\ b.ty \in {"int", "bool"}
          \/ b.ty \in {"str", "list"} /\ a.ty \in {"int", "bool"}
    THEN Exc("unmodelled")
  ELSE Exc("TypeError")

\* true division: the quotient is a float
PyDiv(a, b) ==
  IF IsNumeric(a) /\ IsNumeric(b)
    THEN IF b.n = 0 THEN Exc("ZeroDivisionError")
         ELSE Num("float", a.n * b.d, a.d * b.n)
    ELSE Exc("TypeError")

PyPow(a, b) ==
  IF IsNumeric(a) /\ IsNumeric(b) THEN
    IF b.d # 1 \/ Abs(b.n) > MaxExponent THEN Exc("unmodelled")
    ELSE IF b.n >= 0
      THEN Num(ResultType(a, b), IPow(a.n, b.n), IPow(a.d, b.n))
    ELSE IF a.n = 0 THEN Exc("ZeroDivisionError")
    ELSE Num("float", IPow(a.d, -b.n), IPow(a.n, -b.n))
  ELSE Exc("TypeError")

PyNeg(a) ==
  IF IsNumeric(a) THEN Num(IF a.ty = "bool" THEN "int" ELSE a.ty, -a.n, a.d)
  ELSE Exc("TypeError")

\* the decimal digits
Digits ==
  ("0" :> 0) @@ ("1" :> 1) @@ ("2" :> 2) @@ ("3" :> 3) @@ ("4" :> 4) @@
  ("5" :> 5) @@ ("6" :> 6) @@ ("7" :> 7) @@ ("8" :> 8) @@ ("9" :> 9)

\* str.isdigit()
isdigit(l) == l # <<>> /\ \A i \in 1..Len(l) : l[i] \in DOMAIN Digits

\* int(l) for a line of digits
RECURSIVE int(_)
int(l) == IF l = <<>> THEN 0 ELSE 10 * int(SubSeq(l, 1, Len(l) - 1)) + Digits[l[Len(l)]]

\* the lines float() is modelled for: an optional sign, digits and at most one point
Unsigned(l) == IF l # <<>> /\ l[1] \in {"-", "+"} THEN Tail(l) ELSE l
Points(l) == {i \in 1..Len(l) : l[i] = "."}
Plain(l) == SelectSeq(l, LAMBDA c : c # ".")
IsDecimal(l) == isdigit(Plain(Unsigned(l))) /\ Cardinality(Points(l)) <= 1

\* float(l)
float(l) ==
  IF IsDecimal(l)
    THEN Num("float",
             (IF l[1] = "-" THEN -1 ELSE 1) * int(Plain(Unsigned(l))),
             IPow(10, IF Points(l) = {} THEN 0
                      ELSE Len(l) - (CHOOSE i \in Points(l) : TRUE)))
  ELSE IF \A i \in 1..Len(l) : l[i] \in {"x", "y", ","} THEN Exc("ValueError")
  ELSE Exc("unmodelled")

\* a == b
PyEq(a, b) ==
  IF IsNumeric(a) /\ IsNumeric(b) THEN Val(BoolV(a.n * b.d = b.n * a.d))
  ELSE IF a.ty = "list" /\ b.ty = "list"
    THEN IF a.n = b.n THEN Val(BoolV(TRUE)) ELSE Exc("unmodelled")
  ELSE IF a.ty = b.ty THEN Val(BoolV(a = b))
  ELSE Val(BoolV(FALSE))

PyNe(a, b) ==
  IF PyEq(a, b).exc # "" THEN PyEq(a, b) ELSE Val(BoolV(PyEq(a, b).v.n = 0))

\* a < b
PyLt(a, b) ==
  IF IsNumeric(a) /\ IsNumeric(b) THEN Val(BoolV(a.n * b.d < b.n * a.d))
  ELSE IF a.ty = b.ty /\ a.ty \in {"str", "list"} THEN Exc("unmodelled")
  ELSE Exc("TypeError")

PyLe(a, b) ==
  IF IsNumeric(a) /\ IsNumeric(b) THEN Val(BoolV(a.n * b.d <= b.n * a.d))
  ELSE IF a.ty = b.ty /\ a.ty \in {"str", "list"} THEN Exc("unmodelled")
  ELSE Exc("TypeError")

(***************************************************************************)
(* The evaluator's machine state.                                          *)
(*   envs   RefEnv objects: maps (the ChainMap's dictionaries, innermost   *)
(*          first), return_value, break_val                                *)
(*   dicts  the dictionaries: name -> index of a Ref                       *)
(*   refs   Ref objects: ref_type, ref_value                               *)
(*   lists  list objects held by references (arrays)                       *)
(*   trees  the DEF subtrees that FUNCTION references point to             *)
(*   out    the lines written to standard output, and the prompts          *)
(*   stdin  the lines of standard input not read yet                       *)
(*   status "run", "exit" (sys.exit after a diagnostic), "error" (an       *)
(*          uncaught Python exception), "diverge" (a WHILE that never      *)
(*          ends: its head meets the state of an earlier evaluation),      *)
(*          "unmodelled" (a Python operation outside the model)            *)
(*   ret    the value the last eval_* call returned; seq the Python list   *)
(*          it returned (eval_arglist, eval_paramlist, eval_bounds, ...)   *)
(*   log    history: the control events of the run, each with the          *)
(*          environment it happened in, the column of the node's token,    *)
(*          a value, the environment's break flag and pending return, and  *)
(*          the environments, dictionaries and references of that moment   *)
(***************************************************************************)
NoDiag == [text |-> "", name |-> "", line |-> 0]
EmptyDict == [x \in {} |-> 0]

InitMachine ==
  [envs |-> <<>>, dicts |-> <<>>, refs |-> <<>>, lists |-> <<>>, trees |-> <<>>,
   out |-> <<>>, stdin |-> <<>>, status |-> "run", diag |-> NoDiag, ret |-> None,
   seq |-> <<>>, log |-> <<>>]

Halted(m) == m.status # "run"
Ret(m, v) == [m EXCEPT !.ret = v]
RetSeq(m, sq) == [m EXCEPT !.seq = sq]

\* print(diagnostic); sys.exit(-1)
sys_exit(m, text, name, line) ==
  [m EXCEPT !.status = "exit",
            !.diag = [text |-> text, name |-> name, line |-> line],
            !.out = Append(@, [kind |-> "diag", text |-> text, v |-> None])]

\* an exception nobody catches: the interpreter dies with a traceback
raise(m, exc) ==
  [m EXCEPT !.status = IF exc = "unmodelled" THEN "unmodelled" ELSE "error",
            !.diag = [text |-> exc, name |-> "", line |-> 0]]

Log(m, ev, env, col, val) ==
  [m EXCEPT !.log = Append(@, [ev |-> ev, env |-> env, col |-> col, val |-> val,
                               brk |-> m.envs[env].break_val,
                               ret |-> m.envs[env].return_value # None,
                               envs |-> m.envs, dicts |-> m.dicts, refs |-> m.refs])]

\* RefEnv(parent), parent = 0 standing for None; the new environment is the last
\* an environment that has no map of its own: it writes into its parent's
RefEnv_without_map(parent, m) ==
  IF parent # 0
    THEN [m EXCEPT !.envs = Append(@, [maps |-> m.envs[parent].maps, return_value |-> None,
                                       break_val |-> FALSE])]
    ELSE [m EXCEPT !.dicts = Append(@, EmptyDict),
                   !.envs = Append(@, [maps |-> <<Len(m.dicts) + 1>>, return_value |-> None,
                                       break_val |-> FALSE])]

RefEnv(parent, m) ==
  LET d == Len(m.dicts) + 1
      maps == IF parent # 0 THEN <<d>> \o m.envs[parent].maps ELSE <<d>>
  IN [m EXCEPT !.dicts = Append(@, EmptyDict),
               !.envs = Append(@, [maps |-> maps, return_value |-> None,
                                   break_val |-> FALSE])]

\* RefEnv.lookup: the index of the Ref bound to name, 0 for None
lookup(env, name, m) ==
  LET maps == m.envs[env].maps
      hits == {i \in 1..Len(maps) : name \in DOMAIN m.dicts[maps[i]]}
  IN IF hits = {} THEN 0
     ELSE m.dicts[maps[CHOOSE i \in hits : \A j \in hits : i <= j]][name]

\* RefEnv.insert of a new Ref(ref_type, ref_value)
insert(env, name, ref_type, ref_value, m) ==
  LET r == Len(m.refs) + 1
      d == m.envs[env].maps[1]
      old == m.dicts[d]
  IN [m EXCEPT !.refs = Append(@, [ref_type |-> ref_type, ref_value |-> ref_value]),
               !.dicts[d] = [x \in DOMAIN old \cup {name} |->
                               IF x = name THEN r ELSE old[x]]]

\* the key of bind's lookup: the environment object itself, which is no name
EnvKey == "<RefEnv object>"

\* a bind that looks the name up and rebinds the reference it finds
bind_by_name(env, name, ref_type, ref_value, m) ==
  LET v == lookup(env, name, m) IN
  IF v # 0
    THEN [m EXCEPT !.refs[v] = [ref_type |-> ref_type, ref_value |-> ref_value]]
    ELSE insert(env, name, ref_type, ref_value, m)

bind(env, name, ref_type, ref_value, m) ==
  LET v == lookup(env, EnvKey, m) IN
  IF v # 0
    THEN [m EXCEPT !.refs[v] = [ref_type |-> ref_type, ref_value |-> ref_value]]
    ELSE insert(env, name, ref_type, ref_value, m)

Child(t, i) == t.children[i + 1]    \* t.children[i], counted from 0 as in the source

\* bool(v)
Truth(v) ==
  CASE v.ty \in {"int", "float", "bool"} -> v.n # 0
    [] v.ty = "str" -> v.s # <<>>
    [] v.ty = "none" -> FALSE
    [] OTHER -> TRUE

\* seq[i] for a Python list held as a sequence, i a runtime value
IndexOk(len, i) == i.ty \in {"int", "bool"} /\ i.n >= -len /\ i.n < len
Index(len, i) == IF i.n < 0 THEN i.n + len + 1 ELSE i.n + 1

\* container[i]
GetItem(m, c, i) ==
  IF c.ty = "str" THEN Exc("unmodelled")
  ELSE IF c.ty # "list" \/ i.ty \notin {"int", "bool"} THEN Exc("TypeError")
  ELSE IF ~IndexOk(Len(m.lists[c.n]), i) THEN Exc("IndexError")
  ELSE Val(m.lists[c.n][Index(Len(m.lists[c.n]), i)])

\* container[i] = v: the exception raised, "" when the store is done
SetItemExc(m, c, i) ==
  IF c.ty # "list" \/ i.ty \notin {"int", "bool"} THEN "TypeError"
  ELSE IF ~IndexOk(Len(m.lists[c.n]), i) THEN "IndexError"
  ELSE ""

SetItem(m, c, i, v) ==
  LET l == m.lists[c.n]
      k == Index(Len(l), i)
  IN [m EXCEPT !.lists[c.n] = SubSeq(l, 1, k - 1) \o <<v>> \o SubSeq(l, k + 1, Len(l))]

\* a new list object; it is the last of the heap
NewList(m, elems) == [m EXCEPT !.lists = Append(@, elems)]

(***************************************************************************)
(* The evaluator.  eval_X(t, env, m) is the machine after eval_X(t, env)   *)
(* called in machine m; its return value is in ret (or seq).  A halted     *)
(* machine is handed back unchanged by every caller.                       *)
(***************************************************************************)
RECURSIVE eval_parse_tree(_, _, _)

RECURSIVE program_loop(_, _, _, _, _)
program_loop(t, env, m, i, fun_result) ==
  IF i >= Len(t.children) THEN Ret(m, fun_result)
  ELSE LET m1 == eval_parse_tree(Child(t, i), env, m) IN
       IF Halted(m1) THEN m1
       ELSE IF m1.envs[env].return_value # None
         THEN Ret(m1, m1.envs[env].return_value)
         ELSE program_loop(t, env, m1, i + 1,
                           IF m1.ret # None THEN m1.ret ELSE fun_result)

eval_program(t, env, m) == program_loop(t, env, m, 0, None)

eval_atomic(t, env, m) ==
  IF t.token.token \in {"INTLIT", "FLOATLIT", "STRINGLIT", "CHARLIT"}
    THEN Ret(m, t.token.value)
  ELSE IF t.token.token \in {"CHARACTER", "STRING", "BOOL", "NUMBER"}
    THEN IF Len(t.children) = 0 THEN raise(m, "IndexError")
         ELSE Ret(Log(bind(env, Child(t, 0).token.lexeme, "ID", None,
                           Log(m, "declare", env, t.token.col, None)),
                      "declared", env, t.token.col, None), None)
  ELSE LET v == lookup(env, t.token.lexeme, m) IN
       IF v = 0
         THEN sys_exit(m, "Undefined variable", t.token.lexeme, t.token.line)
       ELSE IF m.refs[v].ref_type # "ID"
         THEN sys_exit(m, "is not a variable.", t.token.lexeme, t.token.line)
       ELSE Ret(m, m.refs[v].ref_value)

RECURSIVE print_loop(_, _, _)
print_loop(m, val, i) ==
  IF i >= Len(val) THEN m
  ELSE print_loop([m EXCEPT !.out = Append(@, [kind |-> "print", text |-> "",
                                                 v |-> val[i + 1]])],
                  val, i + 1)

eval_print(t, env, m) ==
  LET m1 == eval_parse_tree(Child(t, 0), env, m) IN
  IF Halted(m1) THEN m1 ELSE Ret(print_loop(m1, m1.seq, 0), None)

\* value.ref_value[ind[0]] = v  or  value.ref_value[ind[0]][ind[1]] = v,
\* value being the Ref of index r (0: None) and v already evaluated
store_element(m, r, ind, v) ==
  IF r = 0 THEN raise(m, "AttributeError")
  ELSE IF Len(ind) = 0 THEN raise(m, "IndexError")
  ELSE IF Len(ind) = 1 THEN
    IF SetItemExc(m, m.refs[r].ref_value, ind[1]) # ""
      THEN raise(m, SetItemExc(m, m.refs[r].ref_value, ind[1]))
      ELSE Ret(SetItem(m, m.refs[r].ref_value, ind[1], v), None)
  ELSE LET row == GetItem(m, m.refs[r].ref_value, ind[1]) IN
       IF row.exc # "" THEN raise(m, row.exc)
       ELSE IF SetItemExc(m, row.v, ind[2]) # ""
         THEN raise(m, SetItemExc(m, row.v, ind[2]))
         ELSE Ret(SetItem(m, row.v, ind[2], v), None)

eval_assign(t, env, m) ==
  IF Child(t, 0).node_type = "ARRAY" THEN
    LET v2 == Child(Child(t, 0), 0).token.lexeme
        m1 == eval_parse_tree(Child(Child(t, 0), 1), env, m)
    IN IF Halted(m1) THEN m1 ELSE
       LET ind == m1.seq
           m2 == eval_parse_tree(Child(t, 1), env, m1)
       IN IF Halted(m2) THEN m2
          ELSE store_element(m2, lookup(env, v2, m1), ind, m2.ret)
  ELSE LET value == lookup(env, Child(t, 0).token.lexeme, m)
           m1 == eval_parse_tree(Child(t, 1), env, m)
       IN IF Halted(m1) THEN m1
          ELSE IF value = 0 THEN raise(m1, "AttributeError")
          ELSE Ret([m1 EXCEPT !.refs[value].ref_value = m1.ret], None)

\* the type check of one operand: a REF is evaluated and its value checked,
\* anything else is judged by the value of the node's own token
operand_check(c, env, m) ==
  IF c.node_type = "REF"
    THEN LET m1 == eval_parse_tree(c, env, m) IN
         IF Halted(m1) THEN [m |-> m1, numeric |-> FALSE]
         ELSE [m |-> m1, numeric |-> IsNum(m1.ret)]
    ELSE [m |-> m, numeric |-> IsNum(c.token.value)]

PyBinary(op, a, b) ==
  CASE op = "ADD" -> PyAdd(a, b)
    [] op = "SUB" -> PySub(a, b)
    [] op = "MUL" -> PyMul(a, b)
    [] op = "DIV" -> PyDiv(a, b)
    [] op = "POW" -> PyPow(a, b)

TypeMessage(op) ==
  CASE op = "ADD" -> "Cannot add these types."
    [] op = "SUB" -> "Cannot subtract these types."
    [] op = "MUL" -> "Cannot multiply these types."
    [] op = "DIV" -> "Cannot divide these types."
    [] op = "POW" -> "Cannot perform power on these types."
    [] op = "NEG" -> "Cannot negate this type."

\* the last lines of eval_add .. eval_pow: both operands evaluated, left first,
\* and combined when execute holds; the diagnostic otherwise
execute_binary(t, env, m, op, execute) ==
  IF execute THEN
    LET m1 == eval_parse_tree(Child(t, 0), env, m) IN
    IF Halted(m1) THEN m1 ELSE
    LET m2 == eval_parse_tree(Child(t, 1), env, m1) IN
    IF Halted(m2) THEN m2 ELSE
    LET r == PyBinary(op, m1.ret, m2.ret) IN
    IF r.exc # "" THEN raise(m2, r.exc) ELSE Ret(m2, r.v)
  ELSE sys_exit(m, TypeMessage(op), "", 0)

\* eval_add, eval_sub, eval_mul and eval_pow are the same text but for the operator
eval_binary(t, env, m, op) ==
  LET l == operand_check(Child(t, 0), env, m) IN
  IF Halted(l.m) THEN l.m ELSE
  LET r == operand_check(Child(t, 1), env, l.m) IN
  IF Halted(r.m) THEN r.m
  ELSE execute_binary(t, env, r.m, op, l.numeric /\ r.numeric)

eval_add(t, env, m) == eval_binary(t, env, m, "ADD")
eval_sub(t, env, m) == eval_binary(t, env, m, "SUB")
eval_mul(t, env, m) == eval_binary(t, env, m, "MUL")
eval_pow(t, env, m) == eval_binary(t, env, m, "POW")

\* value == 0 for the divisor
IsZero(v) == IsNumeric(v) /\ v.n = 0

\* a division that checks its divisor no more than the other operators do
eval_div_unchecked(t, env, m) == eval_binary(t, env, m, "DIV")

eval_div(t, env, m) ==
  LET l == operand_check(Child(t, 0), env, m) IN
  IF Halted(l.m) THEN l.m
  ELSE IF Child(t, 1).node_type = "REF" THEN
    LET m2 == eval_parse_tree(Child(t, 1), env, l.m) IN
    IF Halted(m2) THEN m2
    ELSE IF IsZero(m2.ret) THEN sys_exit(m2, "Division by 0", "", t.token.line)
    ELSE execute_binary(t, env, m2, "DIV", l.numeric /\ IsNum(m2.ret))
  ELSE IF ~IsNum(Child(t, 1).token.value)
    THEN execute_binary(t, env, l.m, "DIV", FALSE)
  ELSE LET m2 == eval_parse_tree(Child(t, 1), env, l.m) IN
       IF Halted(m2) THEN m2
       ELSE IF IsZero(m2.ret) THEN sys_exit(m2, "Division by 0", "", t.token.line)
       ELSE execute_binary(t, env, m2, "DIV", l.numeric)

eval_neg(t, env, m) ==
  LET o == operand_check(Child(t, 0), env, m) IN
  IF Halted(o.m) THEN o.m
  ELSE IF o.numeric THEN
    LET m1 == eval_parse_tree(Child(t, 0), env, o.m) IN
    IF Halted(m1) THEN m1
    ELSE IF PyNeg(m1.ret).exc # "" THEN raise(m1, PyNeg(m1.ret).exc)
    ELSE Ret(m1, PyNeg(m1.ret).v)
  ELSE sys_exit(o.m, TypeMessage("NEG"), "", 0)

\* a branch statement whose ELSE block runs after its IF block as well
eval_branch_falls_through(t, env, m) ==
  LET m0 == Log(m, "if", env, t.token.col, None)
      m1 == eval_parse_tree(Child(t, 0), env, m0)
  IN IF Halted(m1) THEN m1
     ELSE LET m2 == IF Truth(m1.ret)
                      THEN eval_parse_tree(Child(t, 1), env,
                                           Log(m1, "then", env, t.token.col, m1.ret))
                      ELSE m1
          IN IF Halted(m2) THEN m2
             ELSE IF t.node_type = "IFELSE" THEN
               LET m3 == eval_parse_tree(Child(t, 2), env,
                                         Log(m2, "else", env, t.token.col, m1.ret))
               IN IF Halted(m3) THEN m3
                  ELSE Ret(Log(m3, "endif", env, t.token.col, None), None)
             ELSE Ret(Log(m2, "endif", env, t.token.col, None), None)

eval_branch(t, env, m) ==
  LET m0 == Log(m, "if", env, t.token.col, None)
      m1 == eval_parse_tree(Child(t, 0), env, m0)
  IN IF Halted(m1) THEN m1
     ELSE IF Truth(m1.ret) THEN
       LET m2 == eval_parse_tree(Child(t, 1), env,
                                 Log(m1, "then", env, t.token.col, m1.ret))
       IN IF Halted(m2) THEN m2
          ELSE Ret(Log(m2, "endif", env, t.token.col, None), None)
     ELSE IF t.node_type = "IFELSE" THEN
       LET m2 == eval_parse_tree(Child(t, 2), env,
                                 Log(m1, "else", env, t.token.col, m1.ret))
       IN IF Halted(m2) THEN m2
          ELSE Ret(Log(m2, "endif", env, t.token.col, None), None)
     ELSE Ret(Log(Log(m1, "skip", env, t.token.col, m1.ret),
                  "endif", env, t.token.col, None), None)

PyCompare(op, a, b) ==
  CASE op = "GTE" -> PyLe(b, a)
    [] op = "LTE" -> PyLe(a, b)
    [] op = "GT" -> PyLt(b, a)
    [] op = "LT" -> PyLt(a, b)
    [] op = "ET" -> PyEq(a, b)
    [] op = "NE" -> PyNe(a, b)

\* eval_gte, eval_lte, eval_gt, eval_lt, eval_et, eval_ne
eval_relational(t, env, m, op) ==
  LET m1 == eval_parse_tree(Child(t, 0), env,
                            Log(m, "rel", env, t.token.col, None))
  IN IF Halted(m1) THEN m1 ELSE
     LET m2 == eval_parse_tree(Child(t, 1), env, m1) IN
     IF Halted(m2) THEN m2 ELSE
     LET r == PyCompare(op, m1.ret, m2.ret) IN
     IF r.exc # "" THEN raise(m2, r.exc) ELSE Ret(m2, r.v)

eval_def(t, env, m) ==
  LET name == Child(Child(t, 0), 0).token.lexeme
      m1 == [m EXCEPT !.trees = Append(@, t)]
  IN Ret(insert(env, name, "FUNCTION", TreeV(Len(m1.trees)), m1), None)

eval_paramlist(t, env, m) ==
  RetSeq(m, [i \in 1..Len(t.children) |-> t.children[i].children[1].token.lexeme])

\* for i in range(len(paramlist)): local.insert(paramlist[i], Ref(RefType.ID, arglist[i]))
RECURSIVE insert_params(_, _, _, _, _)
insert_params(local, paramlist, arglist, i, m) ==
  IF i >= Len(paramlist) THEN m
  ELSE insert_params(local, paramlist, arglist, i + 1,
                     insert(local, paramlist[i + 1], "ID", arglist[i + 1], m))

\* the body of the function runs in the environment local; the call's value is
\* what the body's evaluation returns
call_body(t, fun, local, m) ==
  LET m1 == eval_parse_tree(Child(fun, 1), local,
                            Log(m, "enter", local, t.token.col, None))
  IN IF Halted(m1) THEN m1 ELSE Log(m1, "leave", local, t.token.col, m1.ret)

eval_call(t, env, m) ==
  LET name == Child(t, 0).token.lexeme IN
  IF Len(t.children) < 2 THEN raise(m, "IndexError") ELSE
  LET m1 == eval_parse_tree(Child(t, 1), env, m) IN
  IF Halted(m1) THEN m1 ELSE
  LET arglist == m1.seq
      ref == lookup(env, name, m1)
  IN IF ref = 0
       THEN sys_exit(m1, "Call to undefined function", name, t.token.line)
     ELSE IF m1.refs[ref].ref_type # "FUNCTION"
       THEN sys_exit(m1, "Call to non-function", name, t.token.line)
     ELSE
       LET fun == m1.trees[m1.refs[ref].ref_value.n]
           m2 == RefEnv(env, Log(m1, "call", env, t.token.col, None))
           local == Len(m2.envs)
       IN IF Len(fun.children) < 3 THEN raise(m2, "IndexError")
          ELSE IF Child(fun, 2).node_type = "PARAMLIST" THEN
            LET paramlist == eval_paramlist(Child(fun, 2), env, m2).seq IN
            IF Len(arglist) # Len(paramlist)
              THEN sys_exit(m2, "Wrong number of parameters to function", name,
                            t.token.line)
              ELSE call_body(t, fun, local,
                             insert_params(local, paramlist, arglist, 0, m2))
          ELSE call_body(t, fun, local, m2)

eval_return(t, env, m) ==
  IF Len(t.children) = 0 THEN raise(m, "IndexError") ELSE
  LET m1 == eval_parse_tree(Child(t, 0), env, m) IN
  IF Halted(m1) THEN m1
  ELSE Ret(Log([m1 EXCEPT !.envs[env].return_value = m1.ret],
               "return", env, t.token.col, m1.ret), m1.ret)

\* a BREAK that is recorded and leaves the flag as it is
eval_break_without_flag(t, env, m) ==
  Ret(Log(m, "break", env, t.token.col, None), None)

\* a BREAK whose flag is one flag for all activations
eval_break_global(t, env, m) ==
  Ret(Log([m EXCEPT !.envs = [e \in DOMAIN m.envs |-> [m.envs[e] EXCEPT !.break_val = TRUE]]],
          "break", env, t.token.col, None), None)

eval_break(t, env, m) ==
  Ret(Log([m EXCEPT !.envs[env].break_val = TRUE], "break", env, t.token.col, None),
      None)

\* the longest list a declaration may create
MaxList == 6

\* [None] * n
RECURSIVE Nones(_)
Nones(k) == IF k <= 0 THEN <<>> ELSE Append(Nones(k - 1), None)
NoneList(n) == Nones(n.n)

\* [[None] * cols] * rows: one new list, repeated as every row
new_rows_shared(m, rows, cols, acc) ==
  LET m1 == NewList(m, NoneList(cols)) IN
  NewList(m1, [i \in 1..rows |-> ListV(Len(m1.lists))])

\* [[None] * cols for i in range(rows)]: the rows are new lists, then the list of rows
RECURSIVE new_rows(_, _, _, _)
new_rows(m, rows, cols, acc) ==
  IF Len(acc) >= rows THEN NewList(m, acc)
  ELSE LET m1 == NewList(m, NoneList(cols)) IN
       new_rows(m1, rows, cols, Append(acc, ListV(Len(m1.lists))))

eval_array(t, env, m) ==
  LET name == Child(Child(t, 0), 0).token.lexeme
      m1 == eval_parse_tree(Child(t, 1), env, m)
  IN IF Halted(m1) THEN m1 ELSE
     LET bounds == m1.seq IN
     IF Len(bounds) = 0 THEN raise(m1, "IndexError")
     ELSE IF bounds[1].ty \notin {"int", "bool"} THEN raise(m1, "TypeError")
     ELSE IF bounds[1].n > MaxList THEN raise(m1, "unmodelled")
     ELSE IF Len(bounds) = 1 THEN
       LET m2 == NewList(m1, NoneList(bounds[1])) IN
       Ret(bind(env, name, "ID", ListV(Len(m2.lists)), m2), None)
     ELSE IF bounds[1].n > 0 /\ bounds[2].ty \notin {"int", "bool"}
       THEN raise(m1, "TypeError")
     ELSE IF bounds[1].n > 0 /\ bounds[2].n > MaxList THEN raise(m1, "unmodelled")
     ELSE LET m2 == new_rows(m1, IF bounds[1].n > 0 THEN bounds[1].n ELSE 0,
                             bounds[2], <<>>)
          IN Ret(bind(env, name, "ID", ListV(Len(m2.lists)), m2), None)

\* the iterations one WHILE may make before the evaluation is given up
MaxIter == 6

\* what the rest of the loop depends on: the bindings it can see, the lists and
\* the flags of its activation
LoopKey(env, m) ==
  [vals |-> [i \in 1..Len(m.envs[env].maps) |->
               {<<x, m.refs[m.dicts[m.envs[env].maps[i]][x]]>> :
                  x \in DOMAIN m.dicts[m.envs[env].maps[i]]}],
   lists |-> m.lists,
   return_value |-> m.envs[env].return_value, break_val |-> m.envs[env].break_val]

\* while eval_parse_tree(t.children[0], env) and not env.break_val:
\*   eval_parse_tree(t.children[1], env)
\* conds and bodies count the evaluations of the condition and of the body;
\* a loop head that meets the state of an earlier one never ends
RECURSIVE while_loop(_, _, _, _, _, _)
while_loop(t, env, m, conds, bodies, seen) ==
  LET m1 == eval_parse_tree(Child(t, 0), env,
                            Log(m, "cond", env, t.token.col, None))
  IN IF Halted(m1) THEN m1
     ELSE IF Truth(m1.ret) /\ ~m1.envs[env].break_val THEN
       IF \E k \in 1..Len(seen) : seen[k] = LoopKey(env, m1) THEN [m1 EXCEPT !.status = "diverge"]
       ELSE IF bodies >= MaxIter THEN raise(m1, "unmodelled")
       ELSE LET m2 == eval_parse_tree(Child(t, 1), env,
                                      Log(m1, "body", env, t.token.col, None))
            IN IF Halted(m2) THEN m2
               ELSE while_loop(t, env, m2, conds + 1, bodies + 1,
                               Append(seen, LoopKey(env, m1)))
     ELSE Log(m1, "exit", env, t.token.col,
              [conds |-> conds + 1, bodies |-> bodies,
               broke |-> m1.envs[env].break_val])

\* a loop that leaves the break flag as it finds it
eval_while_keeps_flag(t, env, m) ==
  LET m1 == while_loop(t, env, m, 0, 0, <<>>) IN
  IF Halted(m1) THEN m1
  ELSE Ret(Log(m1, "endwhile", env, t.token.col, None), None)

eval_while(t, env, m) ==
  LET m1 == while_loop(t, env, m, 0, 0, <<>>) IN
  IF Halted(m1) THEN m1
  ELSE Ret(Log([m1 EXCEPT !.envs[env].break_val = FALSE],
               "endwhile", env, t.token.col, None), None)

\* value = input(name + "[" + str(i) + "] := "), turned into an int when it is all
\* digits, else into a float when float() takes it, else left a string; the value
\* is in ret
input(m, name, ind) ==
  LET m1 == [m EXCEPT !.out = Append(@, [kind |-> "prompt", text |-> name, v |-> None,
                                           ind |-> ind])]
      line == Head(m1.stdin)
  IN IF m1.stdin = <<>> THEN raise(m1, "EOFError")
     ELSE IF isdigit(line) THEN Ret([m1 EXCEPT !.stdin = Tail(@)], IntV(int(line)))
     ELSE IF float(line).exc = "" THEN Ret([m1 EXCEPT !.stdin = Tail(@)], float(line).v)
     ELSE IF float(line).exc = "ValueError"
       THEN Ret([m1 EXCEPT !.stdin = Tail(@)], StrV(line))
     ELSE raise(m1, float(line).exc)

\* for y in range(0, len(l)): l[y] = input(...), l the list object of index l
RECURSIVE read_list(_, _, _, _, _)
read_list(m, x, l, prefix, y) ==
  IF y >= Len(m.lists[l]) THEN m
  ELSE LET m1 == input(m, x, Append(prefix, IntV(y))) IN
       IF Halted(m1) THEN m1
       ELSE read_list(SetItem(m1, ListV(l), IntV(y), m1.ret), x, l, prefix, y + 1)

\* for i in range(0, len(l)): for y in range(0, len(l[i])): l[i][y] = input(...)
RECURSIVE read_rows(_, _, _, _)
read_rows(m, x, l, i) ==
  IF i >= Len(m.lists[l]) THEN m
  ELSE IF m.lists[l][i + 1].ty = "str" THEN raise(m, "unmodelled")
  ELSE IF m.lists[l][i + 1].ty # "list" THEN raise(m, "TypeError")
  ELSE LET m1 == read_list(m, x, m.lists[l][i + 1].n, <<IntV(i)>>, 0) IN
       IF Halted(m1) THEN m1 ELSE read_rows(m1, x, l, i + 1)

\* the body of eval_read's loop for the reference c
read_ref(c, env, m) ==
  IF Len(c.children) = 0 THEN raise(m, "IndexError")
  ELSE IF Len(c.children) = 1 THEN
    LET x == Child(c, 0).token.lexeme
        value == lookup(env, x, m)
    IN IF value = 0 THEN raise(m, "AttributeError")
       ELSE IF m.refs[value].ref_value.ty = "list" THEN
         LET l == m.refs[value].ref_value.n IN
         IF Len(m.lists[l]) = 0 THEN raise(m, "IndexError")
         ELSE IF m.lists[l][1].ty = "list" THEN read_rows(m, x, l, 0)
         ELSE read_list(m, x, l, <<>>, 0)
       ELSE LET m1 == input(m, x, <<>>) IN
            IF Halted(m1) THEN m1
            ELSE [m1 EXCEPT !.refs[value].ref_value = m1.ret]
  ELSE
    LET x == Child(c, 0).token.lexeme
        m1 == eval_parse_tree(Child(c, 1), env, m)
    IN IF Halted(m1) THEN m1
       ELSE IF Len(m1.seq) = 0 THEN raise(m1, "IndexError")
       ELSE LET ind == IF Len(m1.seq) = 1 THEN m1.seq ELSE SubSeq(m1.seq, 1, 2)
                m2 == input(m1, x, ind)
            IN IF Halted(m2) THEN m2
               ELSE store_element(m2, lookup(env, x, m2), ind, m2.ret)

RECURSIVE read_loop(_, _, _, _)
read_loop(t, env, m, i) ==
  IF i >= Len(t.children) THEN Ret(m, None)
  ELSE LET m1 == read_ref(Child(t, i), env, m) IN
       IF Halted(m1) THEN m1 ELSE read_loop(t, env, m1, i + 1)

eval_read(t, env, m) ==
  IF Len(t.children) = 0 THEN raise(m, "IndexError")
  ELSE read_loop(Child(t, 0), env, m, 0)

\* IMPORT and SPLIT talk to the file system and to strings
eval_import(t, env, m) == raise(m, "unmodelled")
\* a match in which the character . of the separator stands for any character
startswith_pattern(l, sep) ==
  Len(l) >= Len(sep) /\ \A i \in 1..Len(sep) : sep[i] = "." \/ l[i] = sep[i]

\* str.startswith(sep)
startswith(l, sep) == Len(l) >= Len(sep) /\ SubSeq(l, 1, Len(sep)) = sep

\* str.split(sep) for a non-empty sep: the text is scanned from the left, cur is
\* the piece since the last occurrence of sep
RECURSIVE split_loop(_, _, _)
split_loop(l, sep, cur) ==
  IF l = <<>> THEN <<cur>>
  ELSE IF startswith(l, sep)
    THEN <<cur>> \o split_loop(SubSeq(l, Len(sep) + 1, Len(l)), sep, <<>>)
  ELSE split_loop(Tail(l), sep, Append(cur, l[1]))

split(l, sep) == split_loop(l, sep, <<>>)

eval_split(t, env, m) ==
  IF Len(t.children) = 0 THEN raise(m, "IndexError") ELSE
  LET m1 == eval_parse_tree(Child(t, 0), env, m) IN
  IF Halted(m1) THEN m1
  ELSE IF m1.ret.ty # "str" THEN raise(m1, "AttributeError")
  ELSE IF Len(t.children) = 1 THEN raise(m1, "IndexError")
  ELSE LET m2 == eval_parse_tree(Child(t, 1), env, m1) IN
       IF Halted(m2) THEN m2
       ELSE IF m2.ret.ty # "str" THEN raise(m2, "TypeError")
       ELSE IF m2.ret.s = <<>> THEN raise(m2, "ValueError")
       ELSE LET pieces == split(m1.ret.s, m2.ret.s)
                m3 == NewList(m2, [i \in 1..Len(pieces) |-> StrV(pieces[i])])
            IN Ret(m3, ListV(Len(m3.lists)))

RECURSIVE block_loop(_, _, _, _, _)
block_loop(t, env, m, i, fun_result) ==
  IF i >= Len(t.children) THEN Ret(m, fun_result)
  ELSE IF m.envs[env].break_val THEN Ret(m, fun_result)
  ELSE LET m1 == eval_parse_tree(Child(t, i), env, m) IN
       IF Halted(m1) THEN m1
       ELSE block_loop(t, env, m1, i + 1,
                       IF m1.ret # None THEN m1.ret ELSE fun_result)

eval_block(t, env, m) == block_loop(t, env, m, 0, None)

eval_statement(t, env, m) ==
  IF ~m.envs[env].break_val
    THEN IF Len(t.children) = 0 THEN raise(m, "IndexError")
         ELSE eval_parse_tree(Child(t, 0), env,
                              Log(m, "stmt", env, t.token.col, None))
    ELSE Ret(m, None)

RECURSIVE statement_list_loop(_, _, _, _, _)
statement_list_loop(t, env, m, i, fun_result) ==
  IF i >= Len(t.children) THEN Ret(m, fun_result)
  ELSE IF m.envs[env].break_val THEN Ret(m, None)
  ELSE LET m1 == eval_parse_tree(Child(t, i), env, m) IN
       IF Halted(m1) THEN m1
       ELSE IF m1.envs[env].return_value # None
         THEN Ret(m1, m1.envs[env].return_value)
         ELSE statement_list_loop(t, env, m1, i + 1,
                                  IF m1.ret # None THEN m1.ret ELSE fun_result)

eval_statement_list(t, env, m) == statement_list_loop(t, env, m, 0, None)

\* eval_arglist, eval_reflist and eval_bounds: the values of the children that
\* are not None, in order
RECURSIVE list_loop(_, _, _, _, _)
list_loop(t, env, m, i, fun_result) ==
  IF i >= Len(t.children) THEN RetSeq(m, fun_result)
  ELSE LET m1 == eval_parse_tree(Child(t, i), env, m) IN
       IF Halted(m1) THEN m1
       ELSE list_loop(t, env, m1, i + 1,
                      IF m1.ret # None THEN Append(fun_result, m1.ret)
                                       ELSE fun_result)

eval_arglist(t, env, m) == list_loop(t, env, m, 0, <<>>)
eval_reflist(t, env, m) == list_loop(t, env, m, 0, <<>>)
eval_bounds(t, env, m) == list_loop(t, env, m, 0, <<>>)

eval_ref(t, env, m) ==
  IF Len(t.children) = 2 THEN
    LET v == Child(t, 0).token.lexeme
        m1 == eval_parse_tree(Child(t, 1), env, m)
    IN IF Halted(m1) THEN m1 ELSE
       LET arglist == m1.seq
           bigval == lookup(env, v, m1)
       IN IF bigval = 0 THEN raise(m1, "AttributeError")
          ELSE IF Len(arglist) = 0 THEN raise(m1, "IndexError")
          ELSE LET a == GetItem(m1, m1.refs[bigval].ref_value, arglist[1]) IN
               IF a.exc # "" THEN raise(m1, a.exc)
               ELSE IF Len(arglist) # 2 THEN Ret(m1, a.v)
               ELSE LET b == GetItem(m1, a.v, arglist[2]) IN
                    IF b.exc # "" THEN raise(m1, b.exc) ELSE Ret(m1, b.v)
  ELSE IF Len(t.children) = 0 THEN raise(m, "IndexError")
  ELSE eval_parse_tree(Child(t, 0), env, m)

eval_swap(t, env, m) ==
  IF Len(t.children) < 2 THEN raise(m, "IndexError")
  ELSE IF Len(Child(t, 0).children) = 1 /\ Len(Child(t, 1).children) = 1
    THEN raise(m, "IndexError")     \* value.children[1] of a node with one child
    ELSE Ret(m, None)

eval_parse_tree(t, env, m) ==
  IF Halted(m) THEN m
  ELSE IF ~IsTree(t) THEN raise(m, "AttributeError")
  ELSE CASE t.node_type = "PROGRAM" -> eval_program(t, env, m)
    [] t.node_type = "ATOMIC" -> eval_atomic(t, env, m)
    [] t.node_type = "ASSIGN" -> eval_assign(t, env, m)
    [] t.node_type = "ADD" -> eval_add(t, env, m)
    [] t.node_type = "SUB" -> eval_sub(t, env, m)
    [] t.node_type = "MUL" -> eval_mul(t, env, m)
    [] t.node_type = "DIV" -> eval_div(t, env, m)
    [] t.node_type = "POW" -> eval_pow(t, env, m)
    [] t.node_type = "NEG" -> eval_neg(t, env, m)
    [] t.node_type \in {"IF", "IFELSE"} -> eval_branch(t, env, m)
    [] t.node_type \in {"LT", "ET", "NE", "LTE", "GT", "GTE"} ->
         eval_relational(t, env, m, t.node_type)
    [] t.node_type = "PRINT" -> eval_print(t, env, m)
    [] t.node_type = "CALL" -> eval_call(t, env, m)
    [] t.node_type = "RETURN" -> eval_return(t, env, m)
    [] t.node_type = "ARRAY" -> eval_array(t, env, m)
    [] t.node_type = "BLOCK" -> eval_block(t, env, m)
    [] t.node_type = "STATEMENT" -> eval_statement(t, env, m)
    [] t.node_type = "WHILE" -> eval_while(t, env, m)
    [] t.node_type = "IMPORT" -> eval_import(t, env, m)
    [] t.node_type = "SPLIT" -> eval_split(t, env, m)
    [] t.node_type = "STATEMENT_LIST" -> eval_statement_list(t, env, m)
    [] t.node_type = "PARAMLIST" -> eval_paramlist(t, env, m)
    [] t.node_type = "BREAK" -> eval_break(t, env, m)
    [] t.node_type = "READ" -> eval_read(t, env, m)
    [] t.node_type = "ARGLIST" -> eval_arglist(t, env, m)
    [] t.node_type = "REFLIST" -> eval_reflist(t, env, m)
    [] t.node_type = "REF" -> eval_ref(t, env, m)
    [] t.node_type = "DEF" -> eval_def(t, env, m)
    [] t.node_type = "BOUNDS" -> eval_bounds(t, env, m)
    [] t.node_type = "SWAP" -> eval_swap(t, env, m)
    [] OTHER -> Ret(m, None)

\* main: eval_parse_tree(pt, RefEnv())
main(tree) ==
  LET m == RefEnv(0, [InitMachine EXCEPT !.stdin = stdin]) IN eval_parse_tree(tree, 1, m)

(***************************************************************************)
(* The run of the interpreter (SimplyMain's main block): the lexer's       *)
(* stream is parsed, and the tree is evaluated in a fresh environment.     *)
(* A diagnostic of the parser ends the run before any evaluation.          *)
(***************************************************************************)
NoParse == Res(0, NoneNode)

Parse ==
  /\ phase = "source"
  /\ pt' = parse
  /\ phase' = IF Failed(pt') THEN "exit" ELSE "parsed"
  /\ UNCHANGED <<tokens, machine, stdin>>

Evaluate ==
  /\ phase = "parsed"
  /\ machine' = main(pt.node)
  /\ phase' = "done"
  /\ UNCHANGED <<tokens, pt, stdin>>

Next == Parse \/ Evaluate

\* the tokens the lexer makes of keywords and punctuation, names and literals
Kw(t) == [token |-> t, lexeme |-> "", value |-> None]
Id(name) == [token |-> "ID", lexeme |-> name, value |-> None]
IntLit(i) == [token |-> "INTLIT", lexeme |-> "", value |-> IntV(i)]
StrLit(str) == [token |-> "STRINGLIT", lexeme |-> "", value |-> StrV(str)]

(***************************************************************************)
(* Source programs.  A program text is written as its sequence of words    *)
(* (keywords, symbols, names, one-digit integers, the string "a"), and     *)
(* Lex gives the token the lexer makes of each word.                       *)
(***************************************************************************)
Keywords ==
  {"PROC", "BEGIN", "END", "NUMBER", "CHARACTER", "IF", "WHILE", "PRINT", "READ",
   "RETURN", "IMPORT", "BREAK", "SPLIT", "BOOL", "DEF", "ELSE", "STRING"}

Symbols ==
  ("]" :> "RBRACKET") @@ ("," :> "COMMA") @@ ("+" :> "PLUS") @@ ("-" :> "MINUS") @@
  ("/" :> "DIVIDE") @@ ("(" :> "LPAREN") @@ (")" :> "RPAREN") @@ ("=" :> "EQUAL") @@
  ("*" :> "TIMES") @@ ("**" :> "POW") @@ (">" :> "GREATER_THAN") @@
  (">=" :> "GREATER_THAN_OR_EQUAL") @@ ("<" :> "LESS_THAN") @@
  ("<=" :> "LESS_THAN_OR_EQUAL") @@ (":=:" :> "SWAP") @@ (":=" :> "ASSIGN") @@
  ("[" :> "LBRACKET") @@ ("[]" :> "CLOSED_BRACKET") @@ ("~=" :> "NOT_EQUAL_TO")

LexWord(w) ==
  IF w \in Keywords THEN Kw(w)
  ELSE IF w \in DOMAIN Symbols THEN Kw(Symbols[w])
  ELSE IF w \in DOMAIN Digits THEN IntLit(Digits[w])
  ELSE IF w = "'a'" THEN StrLit(<<"a">>)
  ELSE Id(w)

Lex(words) == [i \in 1..Len(words) |-> LexWord(words[i])]

\* the state before the run: the stream of one of the programs, one of the inputs
\* on standard input, nothing parsed, nothing evaluated
StartInput(programs, inputs) ==
  /\ tokens \in {Lex(w) : w \in programs}
  /\ stdin \in inputs
  /\ phase = "source"
  /\ pt = NoParse
  /\ machine = InitMachine

\* a run with nothing on standard input
Start(programs) == StartInput(programs, {<<>>})

(***************************************************************************)
(* Arithmetic programs: r := e for the expressions e over the literals     *)
(* 0, 2, 3, 4 and "a", the variables x = 3, z = 0 and s = "a", the array   *)
(* elements a[0] = 0 and a[1] = 2, and calls of the identity function f.   *)
(***************************************************************************)
ArithHead ==
  <<"DEF", "PROC", "f", "(", "NUMBER", "p", ")", "BEGIN", "RETURN", "p", "END",
    "BEGIN", "NUMBER", "x", "NUMBER", "z", "STRING", "s", "NUMBER", "a", "[", "2", "]",
    "NUMBER", "r",
    "x", ":=", "3", "z", ":=", "0", "s", ":=", "'a'",
    "a", "[", "0", "]", ":=", "0", "a", "[", "1", "]", ":=", "2",
    "r", ":=">>

ArithTail == <<"PRINT", "r", "END">>

Operators == {"+", "-", "*", "/", "**"}

NumAtoms == {<<"2">>, <<"3">>, <<"4">>, <<"x">>}

Atoms ==
  NumAtoms \cup
  {<<"0">>, <<"z">>, <<"s">>, <<"'a'">>, <<"a", "[", "0", "]">>, <<"a", "[", "1", "]">>,
   <<"f", "(", "2", ")">>, <<"f", "(", "0", ")">>, <<"f", "(", "'a'", ")">>}

Signed == Atoms \cup {<<"-">> \o a : a \in Atoms}

ArithExprs ==
  Signed
  \cup {a \o <<o>> \o b : a \in Signed, b \in Signed, o \in Operators}
  \cup {a \o <<o1>> \o b \o <<o2>> \o c :
          a \in NumAtoms, b \in NumAtoms, c \in NumAtoms,
          o1 \in Operators, o2 \in Operators}
  \cup {<<"(">> \o a \o <<o1>> \o b \o <<")", o2>> \o c :
          a \in NumAtoms, b \in NumAtoms, c \in NumAtoms,
          o1 \in Operators, o2 \in Operators}
  \cup {a \o <<o1, "(">> \o b \o <<o2>> \o c \o <<")">> :
          a \in NumAtoms, b \in NumAtoms, c \in NumAtoms,
          o1 \in Operators, o2 \in Operators}

ArithPrograms == {ArithHead \o e \o ArithTail : e \in ArithExprs}

InitArith == Start(ArithPrograms)
SpecArith == InitArith /\ [][Next]_vars

(***************************************************************************)
(* What the language definition says an arithmetic expression is worth,    *)
(* read off the token sequence by the grammar                              *)
(*   expression := term { (PLUS | MINUS) term }                            *)
(*   term := factor { (TIMES | DIVIDE) factor }                            *)
(*   factor := [MINUS] exponent [POW factor]                               *)
(* with the values of the names of the arithmetic programs.  The result is *)
(* Val(v), or Exc("type") when an operand of an operation is no number,    *)
(* Exc("zero") for a division by zero.                                     *)
(***************************************************************************)
Expr == SubSeq(tokens, Len(ArithHead) + 1, Len(tokens) - Len(ArithTail))

OperandEnd(t) == t.token \in {"INTLIT", "STRINGLIT", "ID", "RPAREN", "RBRACKET"}

\* how many brackets are open before position i of e
Depth(e, i) ==
  Cardinality({j \in 1..(i - 1) : e[j].token \in {"LPAREN", "LBRACKET"}})
  - Cardinality({j \in 1..(i - 1) : e[j].token \in {"RPAREN", "RBRACKET"}})

\* the positions of the binary operators ops that are in no bracket
TopLevel(e, ops) ==
  {i \in 2..(Len(e) - 1) : e[i].token \in ops /\ Depth(e, i) = 0 /\ OperandEnd(e[i - 1])}

Last(S) == CHOOSE i \in S : \A j \in S : j <= i
First(S) == CHOOSE i \in S : \A j \in S : i <= j

\* the operator at which e splits, 0 when it is a factor without **
SplitAt(e) ==
  IF TopLevel(e, {"PLUS", "MINUS"}) # {} THEN Last(TopLevel(e, {"PLUS", "MINUS"}))
  ELSE IF TopLevel(e, {"TIMES", "DIVIDE"}) # {}
    THEN Last(TopLevel(e, {"TIMES", "DIVIDE"}))
  ELSE IF TopLevel(e, {"POW"}) # {} THEN First(TopLevel(e, {"POW"}))
  ELSE 0

LeftOf(e) == SubSeq(e, 1, SplitAt(e) - 1)
RightOf(e) == SubSeq(e, SplitAt(e) + 1, Len(e))
Inner(e, k) == SubSeq(e, k, Len(e) - 1)     \* e without its first k - 1 tokens and its last

OperatorNode(tok) ==
  CASE tok = "PLUS" -> "ADD" [] tok = "MINUS" -> "SUB" [] tok = "TIMES" -> "MUL"
    [] tok = "DIVIDE" -> "DIV" [] tok = "POW" -> "POW"

RefName(name) ==
  CASE name = "x" -> Val(IntV(3)) [] name = "z" -> Val(IntV(0))
    [] name = "s" -> Val(StrV(<<"a">>)) [] OTHER -> Exc("name")

RefElement(i) ==
  IF i.exc # "" THEN i
  ELSE IF i.v = IntV(0) THEN Val(IntV(0))
  ELSE IF i.v = IntV(1) THEN Val(IntV(2))
  ELSE Exc("index")

RefApply(op, a, b) ==
  IF a.exc # "" THEN a
  ELSE IF b.exc # "" THEN b
  ELSE IF ~IsNum(a.v) \/ ~IsNum(b.v) THEN Exc("type")
  ELSE IF op = "DIV" /\ b.v.n = 0 THEN Exc("zero")
  ELSE PyBinary(op, a.v, b.v)

RefNegate(a) ==
  IF a.exc # "" THEN a ELSE IF ~IsNum(a.v) THEN Exc("type") ELSE PyNeg(a.v)

RECURSIVE RefValue(_)
RefValue(e) ==
  IF SplitAt(e) # 0
    THEN RefApply(OperatorNode(e[SplitAt(e)].token), RefValue(LeftOf(e)),
                  RefValue(RightOf(e)))
  ELSE IF e[1].token = "MINUS" THEN RefNegate(RefValue(Tail(e)))
  ELSE IF e[1].token = "LPAREN" THEN RefValue(Inner(e, 2))
  ELSE IF Len(e) = 1 THEN
    IF e[1].token = "ID" THEN RefName(e[1].lexeme) ELSE Val(e[1].value)
  ELSE IF e[2].token = "LBRACKET" THEN RefElement(RefValue(Inner(e, 3)))
  ELSE RefValue(Inner(e, 3))     \* f(e): f hands its argument back

\* some division of e has a right operand that is worth 0
RECURSIVE DividesByZero(_)
DividesByZero(e) ==
  IF SplitAt(e) # 0
    THEN \/ /\ e[SplitAt(e)].token = "DIVIDE"
            /\ RefValue(RightOf(e)).exc = ""
            /\ IsZero(RefValue(RightOf(e)).v)
         \/ DividesByZero(LeftOf(e))
         \/ DividesByZero(RightOf(e))
  ELSE IF e[1].token = "MINUS" THEN DividesByZero(Tail(e))
  ELSE IF e[1].token = "LPAREN" THEN DividesByZero(Inner(e, 2))
  ELSE IF Len(e) = 1 THEN FALSE
  ELSE DividesByZero(Inner(e, 3))

\* e is built from numeric literals, the numeric variables x and z, parentheses,
\* unary minus and the five operators only
PlainArithmetic(e) ==
  \A i \in 1..Len(e) :
    \/ e[i].token \in {"INTLIT", "LPAREN", "RPAREN", "PLUS", "MINUS", "TIMES",
                       "DIVIDE", "POW"}
    \/ e[i].token = "ID" /\ e[i].lexeme \in {"x", "z"}

\* the value of the program's variable r at the end of the run
ResultR == machine.refs[lookup(1, "r", machine)].ref_value

Printed == {i \in 1..Len(machine.out) : machine.out[i].kind = "print"}

TypeMessages ==
  {TypeMessage(op) : op \in {"ADD", "SUB", "MUL", "DIV", "POW", "NEG"}}

\* the run ended in the interpreter's type error
TypeFatal == machine.status = "exit" /\ machine.diag.text \in TypeMessages

\* C1: every arithmetic expression over numeric literals, numeric variables,
\* parentheses, unary minus and the five operators that divides by no zero evaluates,
\* after parsing, to the value the grammar's precedence and associativity give
\* it, and the run ends in no fatal error.
C1_PrecedenceValue ==
  (phase = "done" /\ PlainArithmetic(Expr) /\ RefValue(Expr).exc = "")
    => (machine.status = "run" /\ ResultR = RefValue(Expr).v)

\* the run ended in one of the interpreter's fatal errors: a diagnostic, and exit
Fatal == machine.status = "exit"

\* C8: a division whose right operand is worth 0 at run time, be the operand a
\* literal, a variable, an array element, a call or a compound expression, ends
\* the run in a fatal error: r gets no quotient and nothing is printed.
C8_DivisionByZeroIsFatal ==
  (phase = "done" /\ DividesByZero(Expr))
    => (Fatal /\ ResultR = None /\ Printed = {})

\* a run that divided by an array element worth 0 and ended in the
\* division-by-zero diagnostic
C8_Witness ==
  /\ phase = "done"
  /\ DividesByZero(Expr)
  /\ \E i \in 1..Len(Expr) : Expr[i].token = "LBRACKET"
  /\ machine.status = "exit"
  /\ machine.diag.text = "Division by 0"
  /\ ResultR = None

\* C9: an arithmetic operation ends in the type error exactly when the runtime
\* value of one of its operands is no integer and no float, whatever the
\* operand's syntactic form (runs that divide by zero, which end in that other
\* fatal error, set aside).
C9_TypeErrorIffNotNumber ==
  (phase = "done" /\ RefValue(Expr).exc # "unmodelled" /\ ~DividesByZero(Expr))
    => (TypeFatal <=> RefValue(Expr).exc = "type")

(***************************************************************************)
(* Function bodies: f(1) called for the bodies of one or two statements    *)
(* out of literal statements, expression statements, a nested call, an     *)
(* assignment, PRINT, IF and WHILE blocks, and RETURN.                     *)
(***************************************************************************)
BodyHead ==
  <<"DEF", "PROC", "g", "(", "NUMBER", "b", ")", "BEGIN", "RETURN", "7", "END",
    "DEF", "PROC", "f", "(", "NUMBER", "a", ")", "BEGIN">>

BodyTail == <<"END", "BEGIN", "PRINT", "f", "(", "1", ")", "END">>

BodyStatements ==
  {<<"5">>, <<"'a'">>, <<"g", "(", "1", ")">>, <<"(", "a", "+", "1", ")">>,
   <<"a", ":=", "3">>, <<"PRINT", "9">>, <<"RETURN", "2">>,
   <<"IF", "a", "=", "1", "BEGIN", "5", "END">>,
   <<"IF", "a", "=", "1", "BEGIN", "RETURN", "4", "END">>,
   <<"WHILE", "a", "<", "1", "BEGIN", "5", "END">>}

Bodies == BodyStatements \cup {s \o t : s \in BodyStatements, t \in BodyStatements}

BodyPrograms == {BodyHead \o b \o BodyTail : b \in Bodies}

InitBody == Start(BodyPrograms)
SpecBody == InitBody /\ [][Next]_vars

\* the activation of event k of the log had executed a RETURN by then
Returned(k) ==
  \E j \in 1..k : machine.log[j].ev = "return" /\ machine.log[j].env = machine.log[k].env

\* C11: a call whose body finished without executing any RETURN yields none at
\* the call site, whatever statements the body executed.
C11_NoReturnYieldsNone ==
  \A k \in 1..Len(machine.log) :
    (machine.log[k].ev = "leave" /\ ~Returned(k)) => machine.log[k].val = None

(***************************************************************************)
(* The quicksort program of SimplyQuicksort.py, run with the five lines of *)
(* a permutation of 1 .. 5 on standard input.                              *)
(***************************************************************************)
Quicksort ==
  <<"DEF", "PROC", "partition", "(", "NUMBER", "arr", ",", "NUMBER", "low", ",",
      "NUMBER", "high", ")",
    "BEGIN",
      "NUMBER", "pivot",
      "NUMBER", "i",
      "NUMBER", "j",
      "NUMBER", "temp",
      "pivot", ":=", "arr", "[", "high", "]",
      "i", ":=", "low", "-", "1",
      "j", ":=", "low",
      "WHILE", "j", "<", "high",
      "BEGIN",
        "IF", "arr", "[", "j", "]", "<=", "pivot",
        "BEGIN",
          "i", ":=", "i", "+", "1",
          "temp", ":=", "arr", "[", "i", "]",
          "arr", "[", "i", "]", ":=", "arr", "[", "j", "]",
          "arr", "[", "j", "]", ":=", "temp",
        "END",
        "j", ":=", "j", "+", "1",
      "END",
      "temp", ":=", "arr", "[", "i", "+", "1", "]",
      "arr", "[", "i", "+", "1", "]", ":=", "arr", "[", "high", "]",
      "arr", "[", "high", "]", ":=", "temp",
      "i", ":=", "i", "+", "1",
      "RETURN", "i",
    "END",
    "DEF", "PROC", "sort", "(", "NUMBER", "arr", ",", "NUMBER", "low", ",",
      "NUMBER", "high", ")",
    "BEGIN",
      "NUMBER", "pi",
      "IF", "low", "<", "high",
      "BEGIN",
        "pi", ":=", "partition", "(", "arr", ",", "low", ",", "high", ")",
        "sort", "(", "arr", ",", "low", ",", "pi", "-", "1", ")",
        "sort", "(", "arr", ",", "pi", "+", "1", ",", "high", ")",
      "END",
    "END",
    "BEGIN",
      "NUMBER", "arr", "[", "5", "]",
      "NUMBER", "n",
      "n", ":=", "4",
      "READ", "arr",
      "sort", "(", "arr", ",", "0", ",", "n", ")",
      "PRINT", "arr",
    "END">>

\* the input lines "1" .. "5" in every order
SortInputs ==
  {l \in [1..5 -> {<<"1">>, <<"2">>, <<"3">>, <<"4">>, <<"5">>}] :
     \A i \in 1..5 : \A j \in 1..5 : l[i] = l[j] => i = j}

InitSort == StartInput({Quicksort}, SortInputs)
SpecSort == InitSort /\ [][Next]_vars

\* the values PRINT wrote, one per output line, in order
PrintedValues ==
  [i \in 1..Cardinality(Printed) |->
     machine.out[CHOOSE k \in Printed : Cardinality({j \in Printed : j <= k}) = i].v]

\* C12: the quicksort program, given a permutation of five distinct integers,
\* ends without a fatal error and prints the five values in ascending order, one
\* value per output line.
C12_QuicksortPrintsSorted ==
  phase = "done" =>
    /\ machine.status = "run"
    /\ PrintedValues = <<IntV(1), IntV(2), IntV(3), IntV(4), IntV(5)>>

(***************************************************************************)
(* Swaps: a := va, b := vb, c := 9, then one or two swaps among a, b, c.   *)
(***************************************************************************)
SwapDeclarations == <<"BEGIN", "NUMBER", "a", "NUMBER", "b", "NUMBER", "c">>

SwapValues == {"0", "1", "2", "'a'"}

SwapStatements ==
  {<<"a", ":=:", "b">>, <<"b", ":=:", "a">>, <<"a", ":=:", "c">>, <<"a", ":=:", "a">>}

SwapPrograms ==
  {SwapDeclarations \o <<"a", ":=", va, "b", ":=", vb, "c", ":=", "9">> \o sw \o <<"END">> :
     va \in SwapValues, vb \in SwapValues,
     sw \in SwapStatements \cup {<<"a", ":=:", "b">> \o t : t \in SwapStatements}}

InitSwap == Start(SwapPrograms)
SpecSwap == InitSwap /\ [][Next]_vars

\* the value of the program's variable name at the end of the run
ValueOf(name) == machine.refs[lookup(1, name, machine)].ref_value

\* the values the three assignments give a, b and c
Assigned ==
  [name \in {"a", "b", "c"} |->
     tokens[Len(SwapDeclarations) + (CASE name = "a" -> 3 [] name = "b" -> 6
                                       [] name = "c" -> 9)].value]

\* the swaps of the program, in order: the positions of their :=: tokens
SwapsAt == {i \in 1..Len(tokens) : tokens[i].token = "SWAP"}

\* env after exchanging the values of the names on both sides of the swap at i
Exchanged(env, i) ==
  [name \in DOMAIN env |->
     IF name = tokens[i - 1].lexeme THEN env[tokens[i + 1].lexeme]
     ELSE IF name = tokens[i + 1].lexeme THEN env[tokens[i - 1].lexeme]
     ELSE env[name]]

\* the values of a, b and c after the swaps of the program
RECURSIVE AfterSwaps(_, _)
AfterSwaps(env, todo) ==
  IF todo = {} THEN env
  ELSE AfterSwaps(Exchanged(env, First(todo)), todo \ {First(todo)})

\* C13: a swap of two declared variables exchanges their values and leaves every
\* other variable as it was, so that two equal swaps in a row restore the state:
\* the run ends normally with a, b and c holding the exchanged values.
C13_SwapExchanges ==
  phase = "done" =>
    /\ machine.status = "run"
    /\ \A name \in {"a", "b", "c"} : ValueOf(name) = AfterSwaps(Assigned, SwapsAt)[name]

(***************************************************************************)
(* PRINT with one, two or three arguments out of a literal, the variables  *)
(* x = 3, s = "a" and u (never assigned), the array elements v[0] = 4 and  *)
(* v[1] (never assigned), and the sum x + 1.                               *)
(***************************************************************************)
PrintHead ==
  <<"BEGIN", "NUMBER", "u", "NUMBER", "x", "STRING", "s", "NUMBER", "v", "[", "2", "]",
    "x", ":=", "3", "s", ":=", "'a'", "v", "[", "0", "]", ":=", "4", "PRINT">>

PrintArgs ==
  {<<"1">>, <<"x">>, <<"s">>, <<"u">>, <<"v", "[", "0", "]">>, <<"v", "[", "1", "]">>,
   <<"x", "+", "1">>}

PrintArgLists ==
  PrintArgs
  \cup {a \o <<",">> \o b : a \in PrintArgs, b \in PrintArgs}
  \cup {a \o <<",">> \o b \o <<",">> \o c :
          a \in PrintArgs, b \in PrintArgs, c \in {<<"1">>, <<"u">>}}

PrintPrograms == {PrintHead \o l \o <<"END">> : l \in PrintArgLists}

InitPrint == Start(PrintPrograms)
SpecPrint == InitPrint /\ [][Next]_vars

\* the argument list of the PRINT statement, and its commas
ArgTokens == SubSeq(tokens, Len(PrintHead) + 1, Len(tokens) - 1)
Commas == {i \in 1..Len(ArgTokens) : ArgTokens[i].token = "COMMA"}
ArgCount == Cardinality(Commas) + 1

\* where argument k begins
ArgStart(k) ==
  IF k = 1 THEN 1
  ELSE 1 + CHOOSE i \in Commas : Cardinality({j \in Commas : j <= i}) = k - 1

\* the value of argument k
ArgValue(k) ==
  LET i == ArgStart(k) IN
  CASE ArgTokens[i].token = "INTLIT" -> ArgTokens[i].value
    [] ArgTokens[i].lexeme = "x" ->
         IF i < Len(ArgTokens) /\ ArgTokens[i + 1].token = "PLUS" THEN IntV(4)
         ELSE IntV(3)
    [] ArgTokens[i].lexeme = "s" -> StrV(<<"a">>)
    [] ArgTokens[i].lexeme = "u" -> None
    [] ArgTokens[i].lexeme = "v" ->
         IF ArgTokens[i + 2].value = IntV(0) THEN IntV(4) ELSE None

\* C14: PRINT e1, ..., en writes exactly n output lines, line i showing the value
\* of ei, whatever the values are.
C14_PrintOneLinePerArgument ==
  phase = "done" =>
    /\ machine.status = "run"
    /\ PrintedValues = [k \in 1..ArgCount |-> ArgValue(k)]

(***************************************************************************)
(* Compilation units: zero to two variable declarations, zero to two       *)
(* function definitions, zero or one declaration after the definitions,    *)
(* and a block; and streams that are no compilation unit, the empty one    *)
(* included.                                                               *)
(***************************************************************************)
UnitDeclarations == {<<>>, <<"NUMBER", "x">>, <<"NUMBER", "x", "STRING", "y">>}

DefF == <<"DEF", "PROC", "f", "(", "NUMBER", "a", ")", "BEGIN", "RETURN", "a", "END">>
DefG == <<"DEF", "NUMBER", "g", "(", ")", "BEGIN", "PRINT", "2", "END">>
UnitDefinitions == {<<>>, DefF, DefF \o DefG}

UnitLateDeclarations == {<<>>, <<"NUMBER", "z">>}

UnitBlocks ==
  {<<"BEGIN", "PRINT", "1", "END">>, <<"BEGIN", "x", ":=", "1", "PRINT", "x", "END">>}

Unit(d, f, l, b) == d \o f \o l \o b

Units ==
  {Unit(d, f, l, b) : d \in UnitDeclarations, f \in UnitDefinitions,
                      l \in UnitLateDeclarations, b \in UnitBlocks}

IfWithoutOperator == <<"IF", "x", "BEGIN", "END">>

NoUnits ==
  {<<>>, <<"END">>, <<"ELSE">>, IfWithoutOperator,
   <<"BEGIN", "IF", "x", "BEGIN", "END", "END">>,
   <<"BEGIN">>, <<"BEGIN", "PRINT", "1">>, <<"NUMBER">>, <<"DEF", "f">>,
   <<"PRINT", "1">>, <<"BEGIN", "PRINT", "1", "END", "PRINT", "2", ")">>}

InitParse == Start(Units \cup NoUnits)
SpecParse == InitParse /\ [][Next]_vars

\* C15: for every token stream, the empty one included, parse() returns a root
\* PROGRAM node or ends the run with a diagnostic; it never returns without a
\* tree, and IF x BEGIN END ends in the diagnostic.
C15_ParseTreeOrDiagnostic ==
  phase # "source" =>
    /\ Failed(pt) \/ pt.node.node_type = "PROGRAM"
    /\ tokens = Lex(IfWithoutOperator) => Failed(pt)

\* the kinds of the children of the root a unit is to have: one declaration node
\* for each declaration, one DEF node for each definition, then the block
Counted(words, word) == Cardinality({i \in 1..Len(words) : words[i] = word})
UnitChildren(d, f, l) ==
  [i \in 1..(Len(d) \div 2) |-> "ATOMIC"] \o [i \in 1..Counted(f, "DEF") |-> "DEF"]
    \o [i \in 1..(Len(l) \div 2) |-> "ATOMIC"] \o <<"BLOCK">>

\* the three program forms: a bare block; declarations and a block; definitions
\* followed by either of these
IsForm(d, f, l) == (f = <<>> /\ l = <<>>) \/ (f # <<>> /\ d = <<>>)

\* C16: parse() accepts each of the three program forms, and the children of the
\* PROGRAM node are the declarations and definitions in source order followed by
\* the block.
C16_ProgramFormsAccepted ==
  \A d \in UnitDeclarations, f \in UnitDefinitions, l \in UnitLateDeclarations,
     b \in UnitBlocks :
    (phase # "source" /\ tokens = Lex(Unit(d, f, l, b)) /\ IsForm(d, f, l)) =>
      /\ ~Failed(pt)
      /\ pt.node.node_type = "PROGRAM"
      /\ [i \in 1..Len(pt.node.children) |-> pt.node.children[i].node_type]
           = UnitChildren(d, f, l)

(***************************************************************************)
(* Array programs: NUMBER m[2,3] and NUMBER a[2], then no, one or two      *)
(* element assignments (the first of the value 5, the second of 7), then   *)
(* r := one of the elements.                                               *)
(***************************************************************************)
ArrayHead ==
  <<"BEGIN", "NUMBER", "m", "[", "2", ",", "3", "]", "NUMBER", "a", "[", "2", "]",
    "NUMBER", "r">>

Positions ==
  {[arr |-> "m", i |-> i, j |-> j] : i \in 0..1, j \in 0..2}
  \cup {[arr |-> "a", i |-> i, j |-> 0] : i \in 0..1}

Numeral(i) == CHOOSE w \in DOMAIN Digits : Digits[w] = i

ElementText(p) ==
  IF p.arr = "m" THEN <<"m", "[", Numeral(p.i), ",", Numeral(p.j), "]">>
  ELSE <<"a", "[", Numeral(p.i), "]">>

WrittenValue(k) == <<5, 7>>[k]

AssignmentsText(ps) ==
  IF Len(ps) = 0 THEN <<>>
  ELSE IF Len(ps) = 1 THEN ElementText(ps[1]) \o <<":=", Numeral(WrittenValue(1))>>
  ELSE ElementText(ps[1]) \o <<":=", Numeral(WrittenValue(1))>>
         \o ElementText(ps[2]) \o <<":=", Numeral(WrittenValue(2))>>

ArrayProgram(ps, q) ==
  ArrayHead \o AssignmentsText(ps) \o <<"r", ":=">> \o ElementText(q) \o <<"END">>

WriteSequences ==
  {<<>>} \cup {<<p>> : p \in Positions} \cup {<<p, q>> : p \in Positions, q \in Positions}

ArrayPrograms == {ArrayProgram(ps, q) : ps \in WriteSequences, q \in Positions}

InitArray == Start(ArrayPrograms)
SpecArray == InitArray /\ [][Next]_vars

\* the element at a position, in the lists the run has left
ElementAt(p) ==
  IF p.arr = "m"
    THEN machine.lists[machine.lists[ValueOf("m").n][p.i + 1].n][p.j + 1]
    ELSE machine.lists[ValueOf("a").n][p.i + 1]

\* the value last assigned to a position, none when there was no assignment to it
LastAssigned(ps, p) ==
  IF \E k \in 1..Len(ps) : ps[k] = p
    THEN IntV(WrittenValue(CHOOSE k \in 1..Len(ps) :
                             ps[k] = p /\ \A l \in (k + 1)..Len(ps) : ps[l] # p))
    ELSE None

\* C17: NUMBER m[r,c] creates r rows of c elements and NUMBER a[n] creates n
\* elements, all none; after any sequence of element assignments, reading an
\* element returns the value last assigned to exactly that position, and a
\* position never assigned still holds none.
C17_ElementsAreIndependent ==
  \A ps \in WriteSequences, q \in Positions :
    (phase = "done" /\ tokens = Lex(ArrayProgram(ps, q))) =>
      /\ machine.status = "run"
      /\ Len(machine.lists[ValueOf("m").n]) = 2
      /\ \A i \in 1..2 : Len(machine.lists[machine.lists[ValueOf("m").n][i].n]) = 3
      /\ Len(machine.lists[ValueOf("a").n]) = 2
      /\ ValueOf("r") = LastAssigned(ps, q)
      /\ \A p \in Positions : ElementAt(p) = LastAssigned(ps, p)

\* m[1,2] := 5 and m[0,2] := 7 were executed and m[1,2] was read: it holds 5,
\* m[0,2] holds 7 and m[0,0] holds none
C17_Witness ==
  /\ phase = "done"
  /\ tokens = Lex(ArrayProgram(<<[arr |-> "m", i |-> 1, j |-> 2],
                                 [arr |-> "m", i |-> 0, j |-> 2]>>,
                               [arr |-> "m", i |-> 1, j |-> 2]))
  /\ ValueOf("r") = IntV(5)
  /\ ElementAt([arr |-> "m", i |-> 0, j |-> 2]) = IntV(7)
  /\ ElementAt([arr |-> "m", i |-> 0, j |-> 0]) = None

(***************************************************************************)
(* Uses of names.  f is a function, x a variable holding 1, and y and z    *)
(* are bound nowhere.  A use is the text of one statement and the name it  *)
(* is about; the statement is followed by nothing or by PRINT 8.           *)
(***************************************************************************)
NamesHead == DefF \o <<"BEGIN", "NUMBER", "x", "x", ":=", "1">>

Use(name, text) == [name |-> name, text |-> text]

UnboundUses(n) ==
  {Use(n, <<"x", ":=", n>>), Use(n, <<"x", ":=", n, "+", "1">>),
   Use(n, <<"PRINT", n>>), Use(n, <<"x", ":=", n, "[", "0", "]">>),
   Use(n, <<n, ":=", "1">>), Use(n, <<n, "[", "0", "]", ":=", "1">>),
   Use(n, <<"READ", n>>),
   Use(n, <<n, "(", "1", ")">>), Use(n, <<"x", ":=", n, "(", "1", ")">>)}

WrongKindUses ==
  {Use("x", <<"x", "(", "1", ")">>), Use("x", <<"x", ":=", "x", "(", "1", ")">>),
   Use("f", <<"x", ":=", "f">>), Use("f", <<"PRINT", "f">>),
   Use("f", <<"x", ":=", "f", "+", "1">>)}

ImproperUses == UnboundUses("y") \cup UnboundUses("z") \cup WrongKindUses

ProperUses ==
  {Use("x", <<"x", ":=", "x", "+", "1">>), Use("f", <<"x", ":=", "f", "(", "2", ")">>),
   Use("x", <<"PRINT", "x">>)}

NamesTails == {<<>>, <<"PRINT", "8">>}

NamesProgram(u, t) == NamesHead \o u.text \o t \o <<"END">>

NamesPrograms == {NamesProgram(u, t) : u \in ImproperUses \cup ProperUses, t \in NamesTails}

InitNames == Start(NamesPrograms)
SpecNames == InitNames /\ [][Next]_vars

\* C18: every use of a name that does not resolve to a binding of the right kind
\* ends the run with a printed diagnostic naming the identifier and a non-zero
\* exit status, and no binding is created or changed.
C18_UnresolvedNameIsDiagnosed ==
  \A u \in ImproperUses, t \in NamesTails :
    (phase = "done" /\ tokens = Lex(NamesProgram(u, t))) =>
      /\ machine.status = "exit"
      /\ machine.diag.name = u.name
      /\ machine.out # <<>> /\ machine.out[Len(machine.out)].kind = "diag"
      /\ ValueOf("x") = IntV(1)
      /\ lookup(1, "y", machine) = 0 /\ lookup(1, "z", machine) = 0

(***************************************************************************)
(* Calls with one parameter: the body of f assigns to its parameter b or   *)
(* to elements of it, once or twice; the caller holds x = 1 and the array  *)
(* v = [2, 3] and passes x, v or v[0].                                     *)
(***************************************************************************)
CalleeStatements ==
  {<<"b", ":=", "7">>, <<"b", "[", "0", "]", ":=", "7">>, <<"b", "[", "1", "]", ":=", "7">>,
   <<"b", ":=", "b", "+", "1">>, <<"b", "[", "0", "]", ":=", "b", "[", "1", "]">>}

CalleeBodies == CalleeStatements \cup {s \o t : s \in CalleeStatements, t \in CalleeStatements}

CallerHead ==
  <<"BEGIN", "NUMBER", "x", "NUMBER", "r", "NUMBER", "v", "[", "2", "]", "x", ":=", "1",
    "v", "[", "0", "]", ":=", "2", "v", "[", "1", "]", ":=", "3">>

CallStatements ==
  {<<"f", "(", "x", ")">>, <<"f", "(", "v", ")">>, <<"r", ":=", "f", "(", "v", ")">>,
   <<"f", "(", "v", "[", "0", "]", ")">>}

CallProgram(body, call) ==
  <<"DEF", "PROC", "f", "(", "NUMBER", "b", ")", "BEGIN">> \o body
    \o <<"RETURN", "0", "END">> \o CallerHead \o call \o <<"END">>

CallPrograms == {CallProgram(body, call) : body \in CalleeBodies, call \in CallStatements}

InitCall == Start(CallPrograms)
SpecCall == InitCall /\ [][Next]_vars

\* C19: parameters are passed by value: after a call has returned, the caller's
\* argument variable holds the same value, element for element, as before the call.
C19_ParametersByValue ==
  (phase = "done" /\ machine.status = "run") =>
    /\ ValueOf("x") = IntV(1)
    /\ machine.lists[ValueOf("v").n] = <<IntV(2), IntV(3)>>

(***************************************************************************)
(* SPLIT programs: x[] := SPLIT(text) delimiter, for every text of at most *)
(* MaxText characters out of a, the comma and the full stop, and "a,b,c";  *)
(* the delimiters are of one or two characters.                            *)
(***************************************************************************)
MaxText == 3

Texts ==
  UNION {[1..n -> {"a", ",", "."}] : n \in 0..MaxText} \cup {<<"a", ",", "b", ",", "c">>}

Delimiters == {<<",">>, <<".">>, <<",", ",">>, <<",", ".">>, <<"a", "a">>}

SplitTokens(text, delimiter) ==
  Lex(<<"BEGIN", "STRING", "x", "x", "[]", ":=", "SPLIT", "(">>) \o <<StrLit(text)>>
    \o Lex(<<")">>) \o <<StrLit(delimiter)>> \o Lex(<<"END">>)

InitSplit ==
  /\ tokens \in {SplitTokens(text, delimiter) : text \in Texts, delimiter \in Delimiters}
  /\ stdin = <<>>
  /\ phase = "source"
  /\ pt = NoParse
  /\ machine = InitMachine

SpecSplit == InitSplit /\ [][Next]_vars

\* the text and the delimiter of the program, and the strings x holds after it
SplitText == tokens[9].value.s
Delimiter == tokens[11].value.s
Pieces ==
  LET l == machine.lists[ValueOf("x").n] IN [i \in 1..Len(l) |-> l[i].s]

\* d occurs in l at position i
Occurs(d, l, i) == i + Len(d) - 1 <= Len(l) /\ SubSeq(l, i, i + Len(d) - 1) = d

\* the pieces with d between them
RECURSIVE Join(_, _)
Join(ps, d) ==
  IF Len(ps) = 0 THEN <<>>
  ELSE IF Len(ps) = 1 THEN ps[1]
  ELSE ps[1] \o d \o Join(Tail(ps), d)

\* ps are the substrings of l between the successive occurrences of d: joined
\* with d they give l, every piece but the last ends at the first occurrence of
\* d after its beginning, and d does not occur in the last piece
IsSplit(ps, l, d) ==
  /\ Len(ps) >= 1
  /\ Join(ps, d) = l
  /\ \A i \in 1..(Len(ps) - 1) : \A k \in 1..Len(ps[i]) : ~Occurs(d, ps[i] \o d, k)
  /\ \A k \in 1..Len(ps[Len(ps)]) : ~Occurs(d, ps[Len(ps)], k)

\* C20: SPLIT on a string s and a non-empty delimiter d returns the ordered
\* sequence of the substrings of s between successive occurrences of d ("a,b,c"
\* with "," gives "a", "b", "c"); joined with d the sequence gives s back, and no
\* character of d is an escape or a pattern.
C20_SplitIsInverseOfJoin ==
  phase = "done" =>
    /\ machine.status = "run"
    /\ \A i \in 1..Len(machine.lists[ValueOf("x").n]) :
         machine.lists[ValueOf("x").n][i].ty = "str"
    /\ IsSplit(Pieces, SplitText, Delimiter)
    /\ (SplitText = <<"a", ",", "b", ",", "c">> /\ Delimiter = <<",">>)
         => Pieces = <<<<"a">>, <<"b">>, <<"c">>>>

\* "a,b,c" was split by ",": x holds the three letters
C20_Witness ==
  /\ phase = "done"
  /\ SplitText = <<"a", ",", "b", ",", "c">>
  /\ Delimiter = <<",">>
  /\ Pieces = <<<<"a">>, <<"b">>, <<"c">>>>

(***************************************************************************)
(* Calls of a function of one, two or three parameters that prints them    *)
(* in the order of their declaration; the arguments are literals.          *)
(***************************************************************************)
ParamNames == <<"p", "q", "s">>

ArgSequences == UNION {[1..n -> 1..3] : n \in 1..3}

RECURSIVE Listed(_, _)
\* item(1) , item(2) , ... , item(n)
Listed(item(_), n) ==
  IF n = 1 THEN item(1) ELSE Listed(item, n - 1) \o <<",">> \o item(n)

ParamProgram(args) ==
  LET Declared(i) == <<"NUMBER", ParamNames[i]>>
      Named(i) == <<ParamNames[i]>>
      Passed(i) == <<Numeral(args[i])>>
      n == Len(args)
  IN <<"DEF", "PROC", "f", "(">> \o Listed(Declared, n) \o <<")", "BEGIN", "PRINT">>
       \o Listed(Named, n) \o <<"RETURN", "0", "END", "BEGIN", "f", "(">>
       \o Listed(Passed, n) \o <<")", "END">>

ParamPrograms == {ParamProgram(args) : args \in ArgSequences}

InitParams == Start(ParamPrograms)
SpecParams == InitParams /\ [][Next]_vars

\* C2: a call binds the i-th declared parameter to the value of the i-th argument,
\* for every number of parameters n >= 1.
C2_ParametersBoundPositionally ==
  \A args \in ArgSequences :
    (phase = "done" /\ tokens = Lex(ParamProgram(args))) =>
      /\ machine.status = "run"
      /\ PrintedValues = [i \in 1..Len(args) |-> IntV(args[i])]

(***************************************************************************)
(* RETURN inside IF, IF-ELSE and WHILE, in the body of a function called   *)
(* with 1 or 2 and in the program itself; a is the argument, i counts from *)
(* 0, and the statements after the nest print 5.                           *)
(***************************************************************************)
ReturnNests ==
  {<<>>,
   <<"IF", "a", "=", "1", "BEGIN", "RETURN", "4", "END">>,
   <<"IF", "a", "=", "1", "BEGIN", "PRINT", "3", "RETURN", "4", "END">>,
   <<"IF", "a", "=", "1", "BEGIN", "RETURN", "4", "END", "ELSE", "BEGIN", "PRINT", "3", "END">>,
   <<"IF", "a", "=", "1", "BEGIN", "PRINT", "3", "END", "ELSE", "BEGIN", "RETURN", "4", "END">>,
   <<"IF", "a", "=", "1", "BEGIN", "IF", "i", "=", "0", "BEGIN", "RETURN", "4", "END",
     "PRINT", "3", "END">>,
   <<"WHILE", "i", "<", "2", "BEGIN", "i", ":=", "i", "+", "1", "RETURN", "4", "END">>,
   <<"WHILE", "i", "<", "2", "BEGIN", "i", ":=", "i", "+", "1", "IF", "a", "=", "1",
     "BEGIN", "RETURN", "4", "END", "END">>,
   <<"IF", "a", "=", "1", "BEGIN", "WHILE", "i", "<", "2", "BEGIN", "i", ":=", "i", "+", "1",
     "RETURN", "4", "END", "END">>}

ReturnTails == {<<"PRINT", "5">>, <<"PRINT", "5", "RETURN", "6">>, <<"RETURN", "6">>}

InFunction(nest, tail, arg) ==
  <<"DEF", "PROC", "f", "(", "NUMBER", "a", ")", "BEGIN", "NUMBER", "i", "i", ":=", "0">>
    \o nest \o tail \o <<"END", "BEGIN", "f", "(", arg, ")", "PRINT", "9", "END">>

InProgram(nest, tail, arg) ==
  <<"BEGIN", "NUMBER", "a", "NUMBER", "i", "a", ":=", arg, "i", ":=", "0">>
    \o nest \o tail \o <<"END">>

\* the nests of a loop and an IF, one inside the other: in the program only
DeepNests == {nest \in ReturnNests : Len(nest) > 16}

ReturnPrograms ==
  {InFunction(nest, tail, arg) : nest \in ReturnNests \ DeepNests, tail \in ReturnTails,
                                 arg \in {"1", "2"}}
  \cup {InProgram(nest, tail, arg) : nest \in ReturnNests, tail \in ReturnTails,
                                     arg \in {"1", "2"}}

InitReturn == Start(ReturnPrograms)
SpecReturn == InitReturn /\ [][Next]_vars

\* C3: once a RETURN has executed in an activation, no further statement of that
\* activation executes and no loop of it goes on, whatever the nesting of the
\* RETURN, and the value of the RETURN is the value of the call.
C3_ReturnEndsActivation ==
  \A j \in 1..Len(machine.log) : \A k \in (j + 1)..Len(machine.log) :
    (machine.log[j].ev = "return" /\ machine.log[k].env = machine.log[j].env) =>
      /\ machine.log[k].ev \notin {"stmt", "cond", "body"}
      /\ machine.log[k].ev = "leave" => machine.log[k].val = machine.log[j].val

(***************************************************************************)
(* Scopes.  f reads x, which is bound only in the body of g; h calls f.    *)
(* f has one parameter or none; g calls f or h; the program calls g, f or  *)
(* h.  A scope program is the record of these choices.                     *)
(***************************************************************************)
ScopeChoices ==
  [params : {0, 1}, reads : {<<"RETURN", "x">>, <<"PRINT", "x", "RETURN", "0">>},
   inner : {"f", "h"}, outer : {"g", "f", "h"}, value : {"5", "7"}]

\* a call of the function name, f with as many arguments as it has parameters
CallOf(name, c) ==
  IF name = "f" /\ c.params = 0 THEN <<"f", "(", ")">> ELSE <<name, "(", "1", ")">>

ScopeProgram(c) ==
  <<"DEF", "PROC", "f", "(">> \o (IF c.params = 0 THEN <<>> ELSE <<"NUMBER", "d">>)
    \o <<")", "BEGIN">> \o c.reads \o <<"END">>
    \o <<"DEF", "PROC", "h", "(", "NUMBER", "d", ")", "BEGIN">> \o CallOf("f", c) \o <<"END">>
    \o <<"DEF", "PROC", "g", "(", "NUMBER", "d", ")", "BEGIN", "NUMBER", "x",
         "x", ":=", c.value>> \o CallOf(c.inner, c) \o <<"END">>
    \o <<"BEGIN">> \o CallOf(c.outer, c) \o <<"END">>

ScopePrograms == {ScopeProgram(c) : c \in ScopeChoices}

InitScope == Start(ScopePrograms)
SpecScope == InitScope /\ [][Next]_vars

\* C4: a free identifier of a function body resolves against the environment
\* chain of the caller: f, which reads the x of g, succeeds exactly when it is
\* called, directly or through h, from an activation of g, and fails with the
\* undefined-variable error otherwise.
C4_DynamicScope ==
  \A c \in ScopeChoices :
    (phase = "done" /\ tokens = Lex(ScopeProgram(c))) =>
      IF c.outer = "g"
        THEN /\ machine.status = "run"
             /\ \/ \E k \in 1..Len(machine.out) :
                     machine.out[k].kind = "print" /\ machine.out[k].v = IntV(Digits[c.value])
                \/ \E k \in 1..Len(machine.log) :
                     machine.log[k].ev = "return" /\ machine.log[k].val = IntV(Digits[c.value])
        ELSE /\ machine.status = "exit"
             /\ machine.diag.text = "Undefined variable"
             /\ machine.diag.name = "x"

(***************************************************************************)
(* Loops with BREAK.  i counts the iterations of the loop; its condition   *)
(* is a comparison of i, or of c(i), which prints its argument; the loop   *)
(* stands alone or is the body of a loop of two iterations counted by j.   *)
(* PRINT 5 follows the loops.                                              *)
(***************************************************************************)
LoopConds ==
  {<<"i", "<", "1">>, <<"i", "<", "2">>, <<"i", "<", "3">>, <<"c", "(", "i", ")", "<", "2">>}

LoopBodies ==
  {<<>>, <<"BREAK">>, <<"PRINT", "i">>, <<"PRINT", "i", "BREAK">>, <<"BREAK", "PRINT", "i">>,
   <<"IF", "i", "=", "1", "BEGIN", "BREAK", "END">>,
   <<"IF", "i", "=", "2", "BEGIN", "BREAK", "END", "PRINT", "i">>}

\* the nested loops have the two shortest conditions
LoopChoices ==
  [cond : LoopConds, body : LoopBodies, nested : {FALSE}]
  \cup [cond : {<<"i", "<", "1">>, <<"i", "<", "2">>}, body : LoopBodies, nested : {TRUE}]

LoopHead ==
  <<"DEF", "PROC", "c", "(", "NUMBER", "n", ")", "BEGIN", "PRINT", "n", "RETURN", "n", "END",
    "BEGIN", "NUMBER", "i", "NUMBER", "j", "i", ":=", "0", "j", ":=", "0">>

InnerLoop(c) ==
  <<"WHILE">> \o c.cond \o <<"BEGIN", "i", ":=", "i", "+", "1">> \o c.body \o <<"END">>

LoopProgram(c) ==
  LoopHead
    \o (IF c.nested
          THEN <<"WHILE", "j", "<", "2", "BEGIN", "j", ":=", "j", "+", "1", "i", ":=", "0">>
                 \o InnerLoop(c) \o <<"PRINT", "j", "END">>
          ELSE InnerLoop(c))
    \o <<"PRINT", "5", "END">>

LoopPrograms == {LoopProgram(c) : c \in LoopChoices}

InitLoop == Start(LoopPrograms)
SpecLoop == InitLoop /\ [][Next]_vars

\* C5: a loop ended by BREAK does not evaluate its condition again: it has
\* evaluated its condition as many times as it has started its body.
C5_BreakSkipsCondition ==
  \A k \in 1..Len(machine.log) :
    (machine.log[k].ev = "exit" /\ machine.log[k].val.broke) =>
      machine.log[k].val.conds = machine.log[k].val.bodies

\* the events of the first WHILE of the program
OuterLoop(ev) ==
  {k \in 1..Len(machine.log) :
     machine.log[k].ev = ev /\ machine.log[k].col = Len(LoopHead) + 1}

\* C6: whenever a WHILE loop exits, by a false condition or by BREAK, the break
\* flag of its environment is false: the statements after the loop execute, and
\* an enclosing loop goes on iterating after an inner loop was ended by BREAK.
C6_BreakFlagClearedAtExit ==
  /\ \A k \in 1..Len(machine.log) : machine.log[k].ev = "endwhile" => ~machine.log[k].brk
  /\ \A c \in LoopChoices :
       (phase = "done" /\ tokens = Lex(LoopProgram(c))) =>
         /\ machine.status = "run"
         /\ ~machine.envs[1].break_val
         /\ PrintedValues # <<>> /\ PrintedValues[Len(PrintedValues)] = IntV(5)
         /\ c.nested => Cardinality(OuterLoop("body")) = 2

\* an inner loop was ended by BREAK, the outer loop went on to its second
\* iteration, and PRINT 5 after the loops was executed
C6_Witness ==
  /\ phase = "done"
  /\ tokens = Lex(LoopProgram([cond |-> <<"i", "<", "2">>, body |-> <<"BREAK">>,
                               nested |-> TRUE]))
  /\ Cardinality({k \in 1..Len(machine.log) :
                    machine.log[k].ev = "exit" /\ machine.log[k].val.broke}) = 2
  /\ Cardinality(OuterLoop("body")) = 2
  /\ PrintedValues = <<IntV(1), IntV(2), IntV(5)>>

(***************************************************************************)
(* Branches.  x holds 1, 2 or 3; the condition compares x, or c(x), which  *)
(* prints 7 and returns x; the IF block prints 1 or assigns 5 to x, the    *)
(* ELSE block, when there is one, prints 2 or assigns 6; PRINT 9 follows.  *)
(***************************************************************************)
BranchChoices ==
  [value : {"1", "2", "3"},
   cond : {<<"x", "=", "1">>, <<"x", "<", "3">>, <<"c", "(", "x", ")", "=", "1">>},
   then : {<<"PRINT", "1">>, <<"x", ":=", "5">>},
   else : {<<>>, <<"PRINT", "2">>, <<"x", ":=", "6">>}]

BranchProgram(c) ==
  <<"DEF", "PROC", "c", "(", "NUMBER", "n", ")", "BEGIN", "PRINT", "7", "RETURN", "n", "END",
    "BEGIN", "NUMBER", "x", "x", ":=", c.value, "IF">> \o c.cond \o <<"BEGIN">> \o c.then
    \o <<"END">> \o (IF c.else = <<>> THEN <<>> ELSE <<"ELSE", "BEGIN">> \o c.else \o <<"END">>)
    \o <<"PRINT", "9", "END">>

BranchPrograms == {BranchProgram(c) : c \in BranchChoices}

InitBranch == Start(BranchPrograms)
SpecBranch == InitBranch /\ [][Next]_vars

\* the events ev of the branch statement that ended at event k of the log
BranchEvents(k, evs) ==
  {j \in 1..k : /\ machine.log[j].env = machine.log[k].env
                /\ machine.log[j].col = machine.log[k].col
                /\ machine.log[j].ev \in evs}

\* the evaluations of a condition between the beginning of the branch statement
\* that ended at event k and its choice of a branch
ConditionsOf(k) ==
  {j \in 1..k : /\ machine.log[j].ev = "rel"
                /\ machine.log[j].env = machine.log[k].env
                /\ \E i \in BranchEvents(k, {"if"}) : i < j
                /\ \E i \in BranchEvents(k, {"then", "else", "skip"}) : j < i}

\* whether the condition of the program is true of its x
Holds(c) ==
  IF c.cond[2] = "<" THEN Digits[c.value] < 3 ELSE Digits[c.value] = 1

\* what the taken block of the program does, nothing when no block is taken
Taken(c) == IF Holds(c) THEN c.then ELSE c.else

\* the output and the x expected of the program
BranchOutput(c) ==
  (IF c.cond[1] = "c" THEN <<IntV(7)>> ELSE <<>>)
    \o (IF Taken(c) # <<>> /\ Taken(c)[1] = "PRINT" THEN <<IntV(Digits[Taken(c)[2]])>> ELSE <<>>)
    \o <<IntV(9)>>
BranchX(c) ==
  IF Taken(c) # <<>> /\ Taken(c)[1] = "x" THEN IntV(Digits[Taken(c)[3]])
  ELSE IntV(Digits[c.value])

\* C7 as stated: each evaluation of an IF or IF-ELSE node evaluates its condition
\* exactly once and executes exactly one branch.
C7_ExactlyOneBranch ==
  \A k \in 1..Len(machine.log) :
    machine.log[k].ev = "endif" =>
      /\ Cardinality(ConditionsOf(k)) = 1
      /\ Cardinality(BranchEvents(k, {"then", "else"})) = 1

\* C7 amended: each evaluation of an IF or IF-ELSE node evaluates its condition
\* exactly once; an IF-ELSE executes exactly one of its blocks, the IF block when
\* the condition is true and the ELSE block otherwise; an IF without ELSE
\* executes its block when the condition is true and nothing otherwise.  A
\* block that is not taken changes no binding and writes no output.
C7_OneBranchOrNone ==
  /\ \A k \in 1..Len(machine.log) :
       machine.log[k].ev = "endif" =>
         /\ Cardinality(ConditionsOf(k)) = 1
         /\ Cardinality(BranchEvents(k, {"then", "else", "skip"})) = 1
         /\ \A j \in BranchEvents(k, {"then", "else", "skip"}) :
              /\ machine.log[j].ev = "then" <=> Truth(machine.log[j].val)
              /\ machine.log[j].ev = "else" <=>
                   (~Truth(machine.log[j].val) /\ tokens[machine.log[j].col].token = "ELSE")
              /\ machine.log[j].ev = "skip" <=>
                   (~Truth(machine.log[j].val) /\ tokens[machine.log[j].col].token = "IF")
  /\ \A c \in BranchChoices :
       (phase = "done" /\ tokens = Lex(BranchProgram(c))) =>
         /\ machine.status = "run"
         /\ PrintedValues = BranchOutput(c)
         /\ ValueOf("x") = BranchX(c)

\* an IF without ELSE whose condition c(x) = 1 was false of x = 2: c was called
\* once, no block was executed and x is unchanged
C7_Witness ==
  /\ phase = "done"
  /\ tokens = Lex(BranchProgram([value |-> "2", cond |-> <<"c", "(", "x", ")", "=", "1">>,
                                 then |-> <<"x", ":=", "5">>, else |-> <<>>]))
  /\ \E k \in 1..Len(machine.log) :
       /\ machine.log[k].ev = "endif"
       /\ Cardinality(BranchEvents(k, {"skip"})) = 1
       /\ Cardinality(BranchEvents(k, {"then", "else"})) = 0
  /\ PrintedValues = <<IntV(7), IntV(9)>>
  /\ ValueOf("x") = IntV(2)

(***************************************************************************)
(* Arities.  f declares no, one or two parameters and prints 8; the call   *)
(* has no to three arguments, each the literal 1 or the variable u, which  *)
(* was never assigned.                                                     *)
(***************************************************************************)
ArityChoices == [params : 0..2, args : UNION {[1..n -> {"1", "u"}] : n \in 0..3}]

ArityProgram(c) ==
  LET Declared(i) == <<"NUMBER", ParamNames[i]>>
      Passed(i) == <<c.args[i]>>
  IN <<"DEF", "PROC", "f", "(">>
       \o (IF c.params = 0 THEN <<>> ELSE Listed(Declared, c.params))
       \o <<")", "BEGIN", "PRINT", "8", "RETURN", "0", "END", "BEGIN", "NUMBER", "u", "f", "(">>
       \o (IF Len(c.args) = 0 THEN <<>> ELSE Listed(Passed, Len(c.args)))
       \o <<")", "END">>

ArityPrograms == {ArityProgram(c) : c \in ArityChoices}

InitArity == Start(ArityPrograms)
SpecArity == InitArity /\ [][Next]_vars

\* C10: a call is rejected by the arity check exactly when the number of its
\* argument expressions differs from the number of declared parameters, zero
\* included: a mismatch ends the run with the wrong-number-of-parameters
\* diagnostic before any statement of the body, and a matching call is never
\* rejected.
C10_ArityCheckedExactly ==
  \A c \in ArityChoices :
    (phase = "done" /\ tokens = Lex(ArityProgram(c))) =>
      IF Len(c.args) = c.params
        THEN machine.status = "run" /\ PrintedValues = <<IntV(8)>>
        ELSE /\ machine.status = "exit"
             /\ machine.diag.text = "Wrong number of parameters to function"
             /\ machine.diag.name = "f"
             /\ PrintedValues = <<>>

(***************************************************************************)
(* Operator chains: r := o1 op1 o2 ... for two to four operands and every  *)
(* choice of the five operators, the operands being literals, or names,   *)
(* parenthesised expressions and negations, or calls of the identity       *)
(* function f and elements of the array a; and the chains of five literals *)
(* under additive operators only, multiplicative operators only, and **    *)
(* only.                                                                   *)
(***************************************************************************)
ChainHead ==
  <<"DEF", "PROC", "f", "(", "NUMBER", "p", ")", "BEGIN", "RETURN", "p", "END",
    "BEGIN", "NUMBER", "x", "NUMBER", "a", "[", "2", "]", "NUMBER", "r",
    "x", ":=", "3", "a", "[", "0", "]", ":=", "2", "r", ":=">>

ChainTail == <<"PRINT", "r", "END">>

ChainOperands ==
  [literal |-> <<<<"2">>, <<"4">>, <<"1">>, <<"2">>, <<"1">>>>,
   mixed |-> <<<<"x">>, <<"(", "2", "-", "x", ")">>, <<"-", "2">>, <<"3">>>>,
   calls |-> <<<<"f", "(", "2", ")">>, <<"a", "[", "0", "]">>, <<"-", "f", "(", "1", ")">>,
               <<"f", "(", "x", "+", "1", ")">>>>]

ChainChoices ==
  [operands : {"literal", "mixed", "calls"}, ops : UNION {[1..n -> Operators] : n \in 1..3}]
  \cup [operands : {"literal"},
        ops : [1..4 -> {"+", "-"}] \cup [1..4 -> {"*", "/"}] \cup [1..4 -> {"**"}]]

RECURSIVE ChainText(_, _)
ChainText(c, n) ==
  IF n = 0 THEN ChainOperands[c.operands][1]
  ELSE ChainText(c, n - 1) \o <<c.ops[n]>> \o ChainOperands[c.operands][n + 1]

ChainProgram(c) == ChainHead \o ChainText(c, Len(c.ops)) \o ChainTail

ChainPrograms == {ChainProgram(c) : c \in ChainChoices}

InitChain == Start(ChainPrograms)
SpecChain == InitChain /\ [][Next]_vars

\* the expression of a chain program, and the tree the parser made of it: the
\* right side of the third assignment
ChainExpr == SubSeq(tokens, Len(ChainHead) + 1, Len(tokens) - Len(ChainTail))
ChainTree == pt.node.children[2].children[4].children[3].children[1].children[2]

\* a tree reduced to its node types and the columns of its leaves
RECURSIVE Shape(_)
Shape(n) ==
  [node_type |-> n.node_type,
   col |-> IF n.node_type = "ATOMIC" THEN n.token.col ELSE 0,
   children |-> [i \in 1..Len(n.children) |-> Shape(n.children[i])]]

Leaf(col) == [node_type |-> "ATOMIC", col |-> col, children |-> <<>>]
Inside(node_type, children) == [node_type |-> node_type, col |-> 0, children |-> children]

\* the tree of expression e, whose first token is at column base + 1: split at
\* the last additive operator outside brackets, else at the last multiplicative
\* one, else at the first **; a name alone is a reference, a name with an
\* argument in brackets a call or an element
RECURSIVE NestedTree(_, _)
NestedTree(e, base) ==
  IF SplitAt(e) # 0
    THEN Inside(OperatorNode(e[SplitAt(e)].token),
                <<NestedTree(LeftOf(e), base), NestedTree(RightOf(e), base + SplitAt(e))>>)
  ELSE IF e[1].token = "MINUS" THEN Inside("NEG", <<NestedTree(Tail(e), base + 1)>>)
  ELSE IF e[1].token = "LPAREN" THEN NestedTree(Inner(e, 2), base + 1)
  ELSE IF e[1].token # "ID" THEN Leaf(base + 1)
  ELSE IF Len(e) = 1 THEN Inside("REF", <<Leaf(base + 1)>>)
  ELSE Inside(IF e[2].token = "LPAREN" THEN "CALL" ELSE "REF",
              <<Leaf(base + 1),
                Inside("ARGLIST", <<NestedTree(Inner(e, 3), base + 2)>>)>>)

\* C21: the parser turns every chain of additive operators, and every chain of
\* multiplicative operators, into the left-nested tree with the operands in
\* source order, each multiplicative sub-chain being one operand of the
\* additive chain, and every chain of ** into the right-nested tree.
C21_ChainsNestByAssociativity ==
  phase # "source" =>
    /\ ~Failed(pt)
    /\ Shape(ChainTree) = NestedTree(ChainExpr, Len(ChainHead))

\* 2 - 4 * 1 - 2 parsed as (2 - (4 * 1)) - 2
C21_Witness ==
  /\ phase = "parsed"
  /\ tokens = Lex(ChainHead \o <<"2", "-", "4", "*", "1", "-", "2">> \o ChainTail)
  /\ Shape(ChainTree) =
       Inside("SUB", <<Inside("SUB", <<Leaf(33), Inside("MUL", <<Leaf(35), Leaf(37)>>)>>),
                       Leaf(39)>>)

\* the nodes of the tree n, n included
RECURSIVE NodesOf(_)
NodesOf(n) ==
  {n} \cup UNION {NodesOf(n.children[i]) : i \in 1..Len(n.children)}

\* C29: in every tree parse() returns, each ADD, SUB, MUL, DIV and POW node
\* has exactly two children and each NEG node exactly one, and every child is
\* a tree node: no operator node keeps an open slot or exceeds its arity.
C29_OperatorNodesAreFull ==
  (phase # "source" /\ ~Failed(pt)) =>
    \A n \in NodesOf(pt.node) :
      /\ \A i \in 1..Len(n.children) : IsTree(n.children[i])
      /\ n.node_type \in {"ADD", "SUB", "MUL", "DIV", "POW", "NEG"}
           => Len(n.children) = ariness[n.node_type]

\* a parsed chain of four operands, among them a negated call, whose tree
\* holds a NEG node and three binary operator nodes
C29_Witness ==
  /\ phase = "parsed"
  /\ tokens = Lex(ChainProgram([operands |-> "calls", ops |-> <<"-", "*", "+">>]))
  /\ Cardinality({n \in NodesOf(ChainTree) : n.node_type = "NEG"}) = 1
  /\ {n.node_type : n \in NodesOf(ChainTree)} \cap {"ADD", "SUB", "MUL", "DIV", "POW"}
       = {"ADD", "SUB", "MUL"}

(***************************************************************************)
(* Loops that return.  f counts i up from 0 in a WHILE whose body holds a  *)
(* RETURN, first, last, after a PRINT or inside an IF, or none; the        *)
(* program calls f and prints 9.                                           *)
(***************************************************************************)
EndsConds == {<<"i", "<", "1">>, <<"i", "<", "2">>, <<"i", "<", "3">>}

EndsBodies ==
  {<<"RETURN", "4">>,
   <<"i", ":=", "i", "+", "1", "RETURN", "4">>,
   <<"RETURN", "4", "i", ":=", "i", "+", "1">>,
   <<"PRINT", "i", "i", ":=", "i", "+", "1", "RETURN", "4">>,
   <<"IF", "i", "=", "0", "BEGIN", "RETURN", "4", "END", "i", ":=", "i", "+", "1">>,
   <<"i", ":=", "i", "+", "1", "IF", "i", "=", "a", "BEGIN", "RETURN", "4", "END">>,
   <<"i", ":=", "i", "+", "1">>}

EndsChoices == [cond : EndsConds, body : EndsBodies, tail : {<<>>, <<"PRINT", "5">>},
                arg : {"1", "2"}]

EndsProgram(c) ==
  <<"DEF", "PROC", "f", "(", "NUMBER", "a", ")", "BEGIN", "NUMBER", "i", "i", ":=", "0",
    "WHILE">> \o c.cond \o <<"BEGIN">> \o c.body \o <<"END">> \o c.tail
    \o <<"END", "BEGIN", "f", "(", c.arg, ")", "PRINT", "9", "END">>

EndsPrograms == {EndsProgram(c) : c \in EndsChoices}

InitEnds == Start(EndsPrograms)
SpecEnds == InitEnds /\ [][Next]_vars

\* C22: once RETURN has executed in a function activation, the call returns to
\* its call site, also when the RETURN is in the body of a WHILE whose
\* condition still holds: the run is over with the activation left, and no loop
\* that holds an executed RETURN runs forever.
C22_ReturnLeavesLoop ==
  phase = "done" =>
    \A j \in 1..Len(machine.log) :
      (machine.log[j].ev = "return" /\ machine.log[j].env # 1) =>
        /\ machine.status # "diverge"
        /\ \E k \in (j + 1)..Len(machine.log) :
             machine.log[k].ev = "leave" /\ machine.log[k].env = machine.log[j].env

(***************************************************************************)
(* Operands with calls.  f and g print and return a value made of their    *)
(* argument; the program combines two operands, a call, an array element   *)
(* whose index is a call, or a literal, with one arithmetic operator in an *)
(* assignment or one relational operator in the condition of an IF.        *)
(***************************************************************************)
OrderHead ==
  <<"DEF", "NUMBER", "f", "(", "NUMBER", "p", ")", "BEGIN", "PRINT", "p", "RETURN", "p", "END",
    "DEF", "NUMBER", "g", "(", "NUMBER", "q", ")", "BEGIN", "PRINT", "q", "RETURN", "q", "*", "2",
    "END",
    "BEGIN", "NUMBER", "r", "NUMBER", "a", "[", "2", "]", "a", "[", "0", "]", ":=", "1",
    "a", "[", "1", "]", ":=", "4">>

OrderLeft == {<<"f", "(", "1", ")">>, <<"f", "(", "2", ")">>, <<"a", "[", "f", "(", "0", ")", "]">>,
              <<"2">>}
OrderRight == {<<"g", "(", "1", ")">>, <<"g", "(", "2", ")">>, <<"a", "[", "g", "(", "0", ")", "]">>,
               <<"2">>}
OrderRelations == {"<", "<=", ">", ">=", "=", "!="}

OrderChoices == [left : OrderLeft, op : Operators \cup OrderRelations, right : OrderRight]

OrderProgram(c) ==
  OrderHead
    \o (IF c.op \in Operators
          THEN <<"r", ":=">> \o c.left \o <<c.op>> \o c.right \o <<"PRINT", "r">>
          ELSE <<"IF">> \o c.left \o <<c.op>> \o c.right \o <<"BEGIN", "PRINT", "7", "END">>)
    \o <<"END">>

OrderPrograms == {OrderProgram(c) : c \in OrderChoices}

InitOrder == Start(OrderPrograms)
SpecOrder == InitOrder /\ [][Next]_vars

RECURSIVE Ascending(_)
Ascending(S) ==
  IF S = {} THEN <<>>
  ELSE LET x == CHOOSE x \in S : \A y \in S : x <= y IN <<x>> \o Ascending(S \ {x})

\* the calls written in the operator's expression, in source order: the column
\* of each token that follows the "(" of a call
CallCols ==
  LET cols == {i \in (Len(OrderHead) + 1)..Len(tokens) :
                 i > 2 /\ tokens[i - 1].token = "LPAREN" /\ tokens[i - 2].token = "ID"}
  IN Ascending(cols)

\* the calls made by the run, in the order they were entered
EnterCols == LET e == SelectSeq(machine.log, LAMBDA x : x.ev = "enter")
             IN [i \in 1..Len(e) |-> e[i].col]

\* C23: an evaluation of a binary arithmetic or relational operator evaluates its
\* left operand, then its right operand, each exactly once: the calls made are
\* the calls written in the expression, each once and in source order.
C23_OperandsLeftThenRightOnce ==
  (phase = "done" /\ machine.status = "run") => EnterCols = CallCols

(***************************************************************************)
(* BREAK under IF and IF-ELSE.  The BREAK is written bare or one or two    *)
(* branch statements deep, every block that holds it going on with a       *)
(* PRINT, and stands in a loop of the program, in the inner one of two     *)
(* loops (the inner one ends its body with a BREAK of its own), in the     *)
(* program without a loop, in a function without a loop (the function      *)
(* called once, or from a loop), or in a loop of a function; the deeper    *)
(* nests stand in the first, third and fourth of these places.             *)
(***************************************************************************)
BreakConds == {<<"1", "=", "1">>, <<"i", "=", "1">>, <<"i", "=", "2">>}

\* bare, or one branch statement deep in an IF
BreakNests ==
  {<<"BREAK">>}
  \cup {<<"IF">> \o c \o <<"BEGIN", "BREAK", "PRINT", "1", "END">> : c \in BreakConds}

\* in an ELSE, or two branch statements deep
BreakDeepNests ==
  {<<"IF">> \o c \o <<"BEGIN", "PRINT", "0", "END", "ELSE", "BEGIN", "BREAK", "PRINT", "2",
                       "END">> : c \in BreakConds}
  \cup {<<"IF">> \o c \o <<"BEGIN", "IF", "1", "=", "1", "BEGIN", "BREAK", "PRINT", "1", "END",
                          "PRINT", "2", "END">> : c \in BreakConds}
  \cup {<<"IF", "1", "=", "2", "BEGIN", "PRINT", "0", "END", "ELSE", "BEGIN", "IF">> \o c
          \o <<"BEGIN", "BREAK", "PRINT", "1", "END", "PRINT", "2", "END">> : c \in BreakConds}

BreakPlaces == {"loop", "inner", "program", "function", "called", "floop"}

BreakChoices == [nest : BreakNests, place : BreakPlaces]
                  \cup [nest : BreakDeepNests, place : {"loop", "program", "function"}]

Counting(v, body) ==
  <<"WHILE", v, "<", "2", "BEGIN", v, ":=", v, "+", "1">> \o body \o <<"END">>

BreakFunction(body) ==
  <<"DEF", "PROC", "f", "(", "NUMBER", "a", ")", "BEGIN">> \o body \o <<"END">>

BreakProgram(c) ==
  LET stmts == c.nest \o <<"PRINT", "3">>
      body_of_main(body) ==
        <<"BEGIN", "NUMBER", "i", "i", ":=", "0">> \o body \o <<"PRINT", "4", "END">>
      call == <<"f", "(", "1", ")">>
  IN CASE c.place = "loop" -> body_of_main(Counting("i", stmts))
       [] c.place = "inner" ->
            body_of_main(Counting("i", <<"WHILE", "1", "=", "1", "BEGIN">> \o stmts
                                         \o <<"BREAK", "END", "PRINT", "5">>))
       [] c.place = "program" -> body_of_main(<<"PRINT", "6">> \o stmts)
       [] c.place = "function" -> BreakFunction(<<"PRINT", "6">> \o stmts) \o body_of_main(call)
       [] c.place = "called" ->
            BreakFunction(<<"PRINT", "6">> \o stmts)
              \o body_of_main(Counting("i", call \o <<"PRINT", "5">>))
       [] c.place = "floop" ->
            BreakFunction(Counting("i", stmts) \o <<"PRINT", "5">>) \o body_of_main(call)

BreakPrograms == {BreakProgram(c) : c \in BreakChoices}

InitBreak == Start(BreakPrograms)
SpecBreak == InitBreak /\ [][Next]_vars

\* the end of the loop a BREAK logged at j belongs to: the first loop of the
\* BREAK's activation that is left after j, or the end of the run
LoopEnd(j) ==
  LET later == {k \in (j + 1)..Len(machine.log) :
                  machine.log[k].ev = "exit" /\ machine.log[k].env = machine.log[j].env}
  IN IF later = {} THEN Len(machine.log) + 1
     ELSE CHOOSE k \in later : \A k2 \in later : k <= k2

\* C24: after BREAK has executed, no statement of its activation executes before
\* the nearest enclosing WHILE is left, however many IF and IF-ELSE lie between;
\* without an enclosing WHILE no statement of the activation executes any more.
C24_BreakStopsStatements ==
  phase = "done" =>
    \A j \in 1..Len(machine.log) :
      machine.log[j].ev = "break" =>
        \A k \in (j + 1)..(LoopEnd(j) - 1) :
          ~(machine.log[k].ev = "stmt" /\ machine.log[k].env = machine.log[j].env)

\* a BREAK in an IF in the inner of two loops: the inner loop was left by it,
\* the outer loop went on to a second body, whose inner loop was left by the
\* BREAK that ends it, and the run printed 5, 3, 5, 4
C24_Witness ==
  /\ phase = "done" /\ machine.status = "run"
  /\ Cardinality({j \in 1..Len(machine.log) : machine.log[j].ev = "break"}) = 2
  /\ \E j \in 1..Len(machine.log) :
       /\ machine.log[j].ev = "exit" /\ machine.log[j].val.broke
       /\ \E k \in (j + 1)..Len(machine.log) :
            machine.log[k].ev = "stmt" /\ machine.log[k].env = machine.log[j].env
  /\ Cardinality({i \in 1..Len(tokens) : tokens[i].token = "WHILE"}) = 2
  /\ \E i \in 1..Len(tokens) : tokens[i].token = "IF"
  /\ [i \in 1..Len(machine.out) |-> machine.out[i].v]
       = <<IntV(5), IntV(3), IntV(5), IntV(4)>>

(***************************************************************************)
(* Declarations of names that may be bound already.  The program declares  *)
(* x, assigns it or not, and calls f; one more declaration, of x, of f, of *)
(* f's parameter a or of the new name y, stands at the head of the         *)
(* program's block, of a branch's, of a loop's or of the body of f.        *)
(***************************************************************************)
DeclareTypes == {"NUMBER", "STRING", "CHARACTER", "BOOL"}

DeclareChoices == [type : DeclareTypes, name : {"x", "a", "f", "y"},
                   where : {"program", "branch", "loop", "callee"}, assigned : BOOLEAN]

DeclareProgram(c) ==
  LET decl == <<c.type, c.name>> IN
  <<"DEF", "PROC", "f", "(", "NUMBER", "a", ")", "BEGIN">>
    \o (IF c.where = "callee" THEN decl ELSE <<>>)
    \o <<"PRINT", "a", "END", "BEGIN", "NUMBER", "x">>
    \o (IF c.where = "program" THEN decl ELSE <<>>)
    \o (IF c.assigned THEN <<"x", ":=", "5">> ELSE <<"PRINT", "3">>)
    \o (CASE c.where = "branch" -> <<"IF", "1", "=", "1", "BEGIN">> \o decl
                                     \o <<"PRINT", "2", "END">>
          [] c.where = "loop" -> <<"WHILE", "x", "=", "5", "BEGIN">> \o decl
                                   \o <<"x", ":=", "6", "END">>
          [] OTHER -> <<>>)
    \o <<"PRINT", "x", "f", "(", "1", ")", "PRINT", "x", "END">>

DeclarePrograms == {DeclareProgram(c) : c \in DeclareChoices}

InitDeclare == Start(DeclarePrograms)
SpecDeclare == InitDeclare /\ [][Next]_vars

\* the declarations the run has evaluated: the log index of each "declared"
Declared == {j \in 2..Len(machine.log) : machine.log[j].ev = "declared"}

\* the name a declaration logged at column col declares
DeclaredName(col) == tokens[col + 1].lexeme

\* the name is bound in an environment of the chain of env, in the snapshot s
BoundIn(s, env, name) ==
  \E i \in 1..Len(s.envs[env].maps) : name \in DOMAIN s.dicts[s.envs[env].maps[i]]

EmptyBodies ==
  {<<"PRINT", "8">>, <<"RETURN", "3">>, <<"PRINT", "8", "RETURN", "0">>,
   <<"NUMBER", "x", "x", ":=", "1", "PRINT", "x">>}

EmptyCalls ==
  {<<"f", "(", ")">>, <<"r", ":=", "f", "(", ")">>, <<"PRINT", "f", "(", ")">>,
   <<"IF", "f", "(", ")", "=", "3", "BEGIN", "PRINT", "1", "END">>}

EmptyChoices == [type : {"PROC", "NUMBER", "STRING", "CHARACTER", "BOOL"},
                 body : EmptyBodies, call : EmptyCalls]

EmptyProgram(c) ==
  <<"DEF", c.type, "f", "(", ")", "BEGIN">> \o c.body
    \o <<"END", "BEGIN", "NUMBER", "r">> \o c.call \o <<"PRINT", "9", "END">>

EmptyPrograms == {EmptyProgram(c) : c \in EmptyChoices}

InitEmpty == Start(EmptyPrograms)
SpecEmpty == InitEmpty /\ [][Next]_vars

\* C26: a function defined with an empty parameter list can be called with an
\* empty argument list: the program parses, the call creates an environment,
\* executes the body in it and returns, and the run ends without a fatal error.
C26_EmptyParameterListCallable ==
  /\ phase # "exit"
  /\ phase = "done" =>
       /\ machine.status = "run"
       /\ \E j \in 1..Len(machine.log) :
            /\ machine.log[j].ev = "enter" /\ machine.log[j].env > 1
            /\ \E k \in (j + 1)..Len(machine.log) :
                 machine.log[k].ev = "leave" /\ machine.log[k].env = machine.log[j].env

(***************************************************************************)
(* Calls and the caller's names.  The program holds x and calls f, once or *)
(* twice; f calls g; the bodies of f and g declare, assign and print names *)
(* the caller has or has not: x, their own and each other's parameters, a  *)
(* new name, an array.                                                     *)
(***************************************************************************)
FrameInner ==
  {<<"PRINT", "b">>,
   <<"NUMBER", "x", "x", ":=", "b", "PRINT", "x">>,
   <<"NUMBER", "y", "[", "2", "]", "PRINT", "b">>,
   <<"x", ":=", "b">>,
   <<"NUMBER", "a", "a", ":=", "3", "PRINT", "a">>,
   <<"b", ":=", "4", "PRINT", "b">>}

FrameOuter ==
  {<<"g", "(", "a", ")", "PRINT", "a">>,
   <<"NUMBER", "x", "g", "(", "a", ")", "PRINT", "x">>,
   <<"NUMBER", "b", "b", ":=", "2", "g", "(", "3", ")", "PRINT", "b">>,
   <<"x", ":=", "a", "g", "(", "a", ")", "PRINT", "x">>,
   <<"NUMBER", "a", "g", "(", "1", ")", "PRINT", "a">>}

FrameChoices == [inner : FrameInner, outer : FrameOuter, twice : BOOLEAN]

FrameProgram(c) ==
  <<"DEF", "PROC", "g", "(", "NUMBER", "b", ")", "BEGIN">> \o c.inner \o <<"END">>
    \o <<"DEF", "PROC", "f", "(", "NUMBER", "a", ")", "BEGIN">> \o c.outer \o <<"END">>
    \o <<"BEGIN", "NUMBER", "x", "x", ":=", "5", "f", "(", "1", ")", "PRINT", "x">>
    \o (IF c.twice THEN <<"f", "(", "2", ")">> ELSE <<>>) \o <<"END">>

FramePrograms == {FrameProgram(c) : c \in FrameChoices}

InitFrame == Start(FramePrograms)
SpecFrame == InitFrame /\ [][Next]_vars

\* the calls that have returned: <<j, k>>, the call logged at j by the caller,
\* entered at j + 1, left at k
ReturnedCalls ==
  {<<j, k>> \in (1..Len(machine.log)) \X (1..Len(machine.log)) :
     /\ j + 1 < k
     /\ machine.log[j].ev = "call"
     /\ machine.log[j + 1].ev = "enter"
     /\ machine.log[k].ev = "leave" /\ machine.log[k].env = machine.log[j + 1].env}

\* C27: a call adds, removes and rebinds no name in the environment of its
\* caller or in an ancestor: every map of the caller's chain binds the same
\* names to the same references when the call returns as when it was made.
C27_CallKeepsCallerNames ==
  phase = "done" =>
    \A c \in ReturnedCalls :
      LET call == machine.log[c[1]]
          leave == machine.log[c[2]]
          chain == call.envs[call.env].maps
      IN /\ leave.envs[call.env].maps = chain
         /\ \A i \in 1..Len(chain) : leave.dicts[chain[i]] = call.dicts[chain[i]]

\* f, called by the program that holds x, declared x and called g, which
\* declared x as well: both calls returned and the program printed its own x, 5
C27_Witness ==
  /\ phase = "done" /\ machine.status = "run"
  /\ \E c \in ReturnedCalls, d \in ReturnedCalls :
       /\ machine.log[c[1]].env = 1 /\ machine.log[d[1]].env = machine.log[c[1] + 1].env
       /\ c[1] < d[1] /\ d[2] < c[2]
       /\ \A e \in {c, d} :
            "x" \in DOMAIN machine.log[e[2]].dicts[machine.log[e[2]].envs[machine.log[e[2]].env].maps[1]]
  /\ "x" \in DOMAIN machine.dicts[1]
  /\ \E i \in 1..Len(machine.out) : machine.out[i].v = IntV(5)

(***************************************************************************)
(* RETURN and BREAK in a callee.  The program calls f, in a loop that      *)
(* counts to 2 or without one; without the loop f may call g; the bodies   *)
(* of f and g execute RETURN or BREAK, bare or in a branch.  Every call is *)
(* a statement that a PRINT follows.                                       *)
(***************************************************************************)
SignalBare ==
  {<<"BREAK">>, <<"RETURN", "b">>, <<"PRINT", "b">>,
   <<"BREAK", "PRINT", "0">>, <<"RETURN", "7", "PRINT", "0">>}

SignalInner ==
  SignalBare
  \cup {<<"IF", "b", "=", "1", "BEGIN", "BREAK", "END", "PRINT", "b">>,
        <<"IF", "b", "=", "1", "BEGIN", "RETURN", "7", "END", "PRINT", "b">>}

SignalOuter ==
  {<<"RETURN", "a">>,
   <<"BREAK">>,
   <<"g", "(", "a", ")", "PRINT", "6", "RETURN", "2">>,
   <<"g", "(", "a", ")", "PRINT", "6", "BREAK", "PRINT", "0">>}

SignalChoices ==
  [inner : SignalInner, outer : SignalOuter, loop : {FALSE}]
    \cup [inner : SignalBare,
          outer : {<<"RETURN", "a">>, <<"BREAK">>},
          loop : {TRUE}]

SignalProgram(c) ==
  <<"DEF", "PROC", "g", "(", "NUMBER", "b", ")", "BEGIN">> \o c.inner \o <<"END">>
    \o <<"DEF", "NUMBER", "f", "(", "NUMBER", "a", ")", "BEGIN">> \o c.outer \o <<"END">>
    \o <<"BEGIN", "NUMBER", "i", "i", ":=", "0">>
    \o (IF c.loop
          THEN <<"WHILE", "i", "<", "2", "BEGIN", "i", ":=", "i", "+", "1", "f", "(", "i", ")",
                 "PRINT", "i", "END">>
          ELSE <<"f", "(", "1", ")", "PRINT", "8">>)
    \o <<"PRINT", "9", "END">>

SignalPrograms == {SignalProgram(c) : c \in SignalChoices}

InitSignal == Start(SignalPrograms)
SpecSignal == InitSignal /\ [][Next]_vars

\* the first event after k that the environment env logs, 0 when there is none
NextEventOf(env, k) ==
  LET later == {n \in (k + 1)..Len(machine.log) : machine.log[n].env = env}
  IN IF later = {} THEN 0 ELSE CHOOSE n \in later : \A n2 \in later : n <= n2

\* the environment env has executed a BREAK or a RETURN of its own
Signalled(env) ==
  \E n \in 1..Len(machine.log) :
    machine.log[n].ev \in {"break", "return"} /\ machine.log[n].env = env

\* C28: the return slot and the break flag belong to one activation.  When a
\* call has returned, the caller's slot and flag are what they were when the
\* call was made, whatever RETURN or BREAK the callee executed; the caller goes
\* on with the statement after the call; and a loop of an activation that
\* executed no BREAK and no RETURN itself runs until its condition is false.
C28_SignalsPerActivation ==
  phase = "done" =>
    /\ \A c \in ReturnedCalls :
         LET call == machine.log[c[1]]
             leave == machine.log[c[2]]
         IN /\ leave.envs[call.env].return_value = call.envs[call.env].return_value
            /\ leave.envs[call.env].break_val = call.envs[call.env].break_val
            /\ NextEventOf(call.env, c[2]) # 0
            /\ machine.log[NextEventOf(call.env, c[2])].ev = "stmt"
    /\ \A n \in 1..Len(machine.log) :
         (machine.log[n].ev = "exit" /\ ~Signalled(machine.log[n].env))
           => (machine.log[n].val.bodies = 2 /\ ~machine.log[n].val.broke)

\* in a loop of the program f was called twice and executed BREAK each time;
\* the loop of the program ended by its condition after two bodies and the run
\* printed 1, 2, 9
C28_Witness ==
  /\ phase = "done" /\ machine.status = "run"
  /\ Cardinality(ReturnedCalls) = 2
  /\ Cardinality({n \in 1..Len(machine.log) : machine.log[n].ev = "break"}) = 2
  /\ ~Signalled(1)
  /\ \E n \in 1..Len(machine.log) :
       /\ machine.log[n].ev = "exit" /\ machine.log[n].env = 1
       /\ machine.log[n].val.bodies = 2 /\ ~machine.log[n].val.broke
  /\ [i \in 1..Len(machine.out) |-> machine.out[i].v] = <<IntV(1), IntV(2), IntV(9)>>

(***************************************************************************)
(* Token streams.  Small programs that go through every loop and every     *)
(* recursive production of the parser, every stream that is the beginning  *)
(* of one of them, and every stream that differs from one of them in one   *)
(* token.                                                                  *)
(***************************************************************************)
StreamBases ==
  {<<"BEGIN", "PRINT", "1", ",", "x", ",", "f", "(", "2", ",", "y", ")", "END">>,
   <<"BEGIN", "READ", "x", ",", "a", "[", "1", ",", "2", "]", "END">>,
   <<"NUMBER", "x", "STRING", "s", "[", "2", ",", "3", "]", "DEF", "PROC", "g", "(", ")",
     "BEGIN", "BREAK", "END", "BEGIN", "NUMBER", "z", "x", ":=", "1", "END">>,
   <<"DEF", "NUMBER", "f", "(", "NUMBER", "p", ",", "STRING", "[]", "q", ")", "BEGIN",
     "RETURN", "p", "END", "DEF", "PROC", "g", "(", ")", "BEGIN", "BREAK", "END",
     "BEGIN", "f", "(", "1", ",", "2", ")", "END">>,
   <<"BEGIN", "x", ":=", "1", "+", "2", "*", "3", "**", "-", "(", "4", "-", "x", ")", "/", "5",
     "END">>,
   <<"BEGIN", "IF", "x", "<", "1", "BEGIN", "BREAK", "END", "ELSE", "BEGIN", "WHILE", "x",
     "~=", "2", "BEGIN", "x", ":=:", "y", "END", "END", "END">>,
   <<"BEGIN", "BREAK", "x", ":=", "1", "(", "2", ")", "3", "RETURN", "4", "END">>}

StreamPrefixes(w) == {SubSeq(w, 1, n) : n \in 0..Len(w)}

\* the words put in the place of one word of a program
StreamWords == {"END", ",", "BREAK", "1"}

StreamEdits(w) ==
  {[w EXCEPT ![i] = r] : i \in 1..Len(w), r \in StreamWords}

Streams == UNION {StreamPrefixes(w) \cup StreamEdits(w) : w \in StreamBases}

InitStream == Start(Streams)
SpecStream == InitStream /\ [][Next]_vars

\* the productions that take at least one token or end the run
TakingProductions ==
  <<"__exponent", "__factor", "__term", "__expression", "__arg_list", "__ref", "__ref_list",
    "__return", "__condition", "__stmnt", "__block", "__variable_choice_param1">>

\* the productions that may match nothing
OptionalProductions == <<"__factor2", "__term2", "__expression2", "__split_alt", "__program">>

\* the productions that repeat themselves for the rest of a list, which they
\* append to the node lv
ListProductions ==
  <<"__stmnt_list_alt", "__var_declist", "__fun_declist2", "__bounds2",
    "__variable_choice_param2">>

list_production(production, lv, p) ==
  CASE production = "__stmnt_list_alt" -> __stmnt_list_alt(lv, p)
    [] production = "__var_declist" -> __var_declist(lv, p)
    [] production = "__fun_declist2" -> __fun_declist2(lv, p)
    [] production = "__bounds2" -> __bounds2(lv, p)
    [] production = "__variable_choice_param2" -> __variable_choice_param2(lv, p)

\* the positions of the lexer: 1 .. EOF
EOFPosition == Len(tokens) + 1

\* the result r of a production called at p: the run ended with a diagnostic at
\* or after p, or the lexer is at or after p (after p when strict) and not
\* beyond EOF
Advanced(r, p, strict) ==
  IF Failed(r) THEN r.err[1].col \in p..EOFPosition
  ELSE r.pos \in (IF strict THEN p + 1 ELSE p)..EOFPosition

====
